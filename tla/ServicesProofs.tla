--------------------------- MODULE ServicesProofs ---------------------------
(***************************************************************************)
(* Proofs about the audit recorder, and about the recorder and the REST    *)
(* handlers together.                                                      *)
(***************************************************************************)
EXTENDS MCServices, InstanceApiProofs, SequenceTheorems, FiniteSetTheorems

-----------------------------------------------------------------------------
(* What sequences are made of. *)

LEMMA ElementsAre ==
    ASSUME NEW S, NEW s \in Seq(S)
    PROVE  /\ ToSet(s) = {s[i] : i \in 1 .. Len(s)} /\ ToSet(s) \subseteq S /\ Len(s) \in Nat
           /\ IsInjective(s) <=> \A i, j \in 1 .. Len(s) : s[i] = s[j] => i = j
<1>1. Len(s) \in Nat /\ s \in [1 .. Len(s) -> S] /\ DOMAIN s = 1 .. Len(s)
  BY LenProperties
<1> QED
  BY <1>1 DEF ToSet, IsInjective

LEMMA ConcatElements ==
    ASSUME NEW S, NEW s \in Seq(S), NEW t \in Seq(S)
    PROVE  /\ s \o t \in Seq(S) /\ ToSet(s \o t) = ToSet(s) \cup ToSet(t)
           /\ IsInjective(s) /\ IsInjective(t) /\ ToSet(s) \cap ToSet(t) = {}
                 => IsInjective(s \o t)
<1> DEFINE c == s \o t
           m == Len(s)
           n == Len(t)
<1>1. /\ c \in Seq(S) /\ Len(c) = m + n /\ m \in Nat /\ n \in Nat
      /\ \A i \in 1 .. m + n : c[i] = IF i <= m THEN s[i] ELSE t[i - m]
  BY ConcatProperties, LenProperties
<1>2. /\ ToSet(c) = {c[i] : i \in 1 .. Len(c)}
      /\ IsInjective(c) <=> \A i, j \in 1 .. Len(c) : c[i] = c[j] => i = j
  <2> HIDE DEF c
  <2> QED
    BY <1>1, ElementsAre
<1>3. /\ ToSet(s) = {s[i] : i \in 1 .. m} /\ ToSet(t) = {t[i] : i \in 1 .. n}
      /\ IsInjective(s) <=> \A i, j \in 1 .. m : s[i] = s[j] => i = j
      /\ IsInjective(t) <=> \A i, j \in 1 .. n : t[i] = t[j] => i = j
  BY ElementsAre
<1> HIDE DEF c, m, n
<1>4. \A x : x \in ToSet(c) => x \in ToSet(s) \cup ToSet(t)
  BY <1>1, <1>2, <1>3
<1>5. ASSUME NEW x \in ToSet(s) PROVE x \in ToSet(c)
  BY <1>1, <1>2, <1>3
<1>6. ASSUME NEW x \in ToSet(t) PROVE x \in ToSet(c)
  <2>1. PICK i \in 1 .. n : t[i] = x
    BY <1>3
  <2>2. m + i \in 1 .. m + n /\ ~(m + i <= m) /\ (m + i) - m = i
    BY <1>1
  <2>3. c[m + i] = x
    BY <1>1, <2>1, <2>2
  <2> QED
    BY <1>1, <1>2, <2>2, <2>3
<1>7. ASSUME IsInjective(s), IsInjective(t), ToSet(s) \cap ToSet(t) = {} PROVE IsInjective(c)
  <2> SUFFICES ASSUME NEW i \in 1 .. m + n, NEW j \in 1 .. m + n, c[i] = c[j] PROVE i = j
    BY <1>1, <1>2
  <2>1. CASE i <= m /\ j <= m
    BY <1>1, <1>3, <1>7, <2>1
  <2>2. CASE i > m /\ j > m
    <3>1. i - m \in 1 .. n /\ j - m \in 1 .. n /\ t[i - m] = t[j - m]
      BY <1>1, <2>2
    <3>2. i - m = j - m
      BY <1>3, <1>7, <3>1
    <3> QED
      BY <1>1, <3>2
  <2>3. CASE i <= m /\ j > m
    <3>1. i \in 1 .. m /\ j - m \in 1 .. n /\ s[i] = t[j - m]
      BY <1>1, <2>3
    <3>2. s[i] \in ToSet(s) /\ t[j - m] \in ToSet(t)
      BY <1>3, <3>1
    <3> QED
      BY <1>7, <3>1, <3>2
  <2>4. CASE i > m /\ j <= m
    <3>1. j \in 1 .. m /\ i - m \in 1 .. n /\ s[j] = t[i - m]
      BY <1>1, <2>4
    <3>2. s[j] \in ToSet(s) /\ t[i - m] \in ToSet(t)
      BY <1>3, <3>1
    <3> QED
      BY <1>7, <3>1, <3>2
  <2> QED
    BY <1>1, <2>1, <2>2, <2>3, <2>4
<1> QED
  BY <1>1, <1>4, <1>5, <1>6, <1>7 DEF c

LEMMA HeadTailElements ==
    ASSUME NEW S, NEW s \in Seq(S), s # <<>>
    PROVE  /\ Tail(s) \in Seq(S) /\ Head(s) \in S /\ ToSet(s) = {Head(s)} \cup ToSet(Tail(s))
           /\ Len(Tail(s)) = Len(s) - 1
           /\ IsInjective(s) => IsInjective(Tail(s)) /\ Head(s) \notin ToSet(Tail(s))
<1> DEFINE t == Tail(s)
           n == Len(s)
<1>1. /\ t \in Seq(S) /\ Len(t) = n - 1 /\ n \in Nat \ {0} /\ Head(s) \in S /\ Head(s) = s[1]
      /\ \A i \in 1 .. Len(t) : t[i] = s[i + 1]
  BY HeadTailProperties, EmptySeq
<1>2. /\ ToSet(t) = {t[i] : i \in 1 .. Len(t)}
      /\ IsInjective(t) <=> \A i, j \in 1 .. Len(t) : t[i] = t[j] => i = j
  <2> HIDE DEF t
  <2> QED
    BY <1>1, ElementsAre
<1>3. /\ ToSet(s) = {s[i] : i \in 1 .. n}
      /\ IsInjective(s) <=> \A i, j \in 1 .. n : s[i] = s[j] => i = j
  BY ElementsAre
<1> HIDE DEF t, n
<1>4. ASSUME NEW x \in ToSet(s) PROVE x \in {Head(s)} \cup ToSet(t)
  <2>1. PICK i \in 1 .. n : s[i] = x
    BY <1>3
  <2>2. i # 1 => i - 1 \in 1 .. Len(t) /\ t[i - 1] = x
    BY <1>1, <2>1
  <2> QED
    BY <1>1, <1>2, <2>1, <2>2
<1>5. \A x : x \in {Head(s)} \cup ToSet(t) => x \in ToSet(s)
  BY <1>1, <1>2, <1>3
<1>6. ASSUME IsInjective(s) PROVE IsInjective(t) /\ Head(s) \notin ToSet(t)
  <2>1. \A i \in 1 .. Len(t) : i + 1 \in 1 .. n /\ i + 1 # 1
    BY <1>1
  <2>2. IsInjective(t)
    <3> SUFFICES ASSUME NEW i \in 1 .. Len(t), NEW j \in 1 .. Len(t), t[i] = t[j] PROVE i = j
      BY <1>2
    <3>1. i + 1 = j + 1
      BY <1>1, <1>3, <1>6, <2>1
    <3> QED
      BY <1>1, <3>1
  <2>3. 1 \in 1 .. n
    BY <1>1
  <2>4. ASSUME NEW i \in 1 .. Len(t) PROVE t[i] # Head(s)
    BY <1>1, <1>3, <1>6, <2>1, <2>3
  <2> QED
    BY <1>2, <2>2, <2>4
<1> QED
  BY <1>1, <1>4, <1>5, <1>6 DEF t, n

LEMMA AppendElements ==
    ASSUME NEW S, NEW s \in Seq(S), NEW x \in S
    PROVE  /\ Append(s, x) \in Seq(S) /\ ToSet(Append(s, x)) = ToSet(s) \cup {x}
           /\ Append(s, x) # <<>> /\ Len(Append(s, x)) = Len(s) + 1
           /\ Head(Append(s, x)) = IF s = <<>> THEN x ELSE Head(s)
           /\ IsInjective(s) /\ x \notin ToSet(s) => IsInjective(Append(s, x))
<1>1. <<x>> \in Seq(S) /\ ToSet(<<x>>) = {x} /\ IsInjective(<<x>>)
  BY DEF ToSet, IsInjective
<1>2. Append(s, x) = s \o <<x>>
  BY AppendIsConcat
<1>3. Append(s, x) # <<>> /\ Len(Append(s, x)) = Len(s) + 1
  BY AppendProperties
<1>4. Head(Append(s, x)) = IF s = <<>> THEN x ELSE Head(s)
  BY HeadTailAppend
<1>5. /\ s \o <<x>> \in Seq(S) /\ ToSet(s \o <<x>>) = ToSet(s) \cup ToSet(<<x>>)
      /\ IsInjective(s) /\ IsInjective(<<x>>) /\ ToSet(s) \cap ToSet(<<x>>) = {}
            => IsInjective(s \o <<x>>)
  BY <1>1, ConcatElements
<1> QED
  BY <1>1, <1>2, <1>3, <1>4, <1>5

LEMMA PrefixElements ==
    ASSUME NEW S, NEW s \in Seq(S), NEW k \in 0 .. Len(s)
    PROVE  /\ SubSeq(s, 1, k) \in Seq(S) /\ ToSet(SubSeq(s, 1, k)) = {s[i] : i \in 1 .. k}
           /\ ToSet(SubSeq(s, 1, k)) \subseteq ToSet(s)
           /\ IsInjective(s) => IsInjective(SubSeq(s, 1, k))
           /\ k = 0 => SubSeq(s, 1, k) = <<>>
           /\ k > 0 => SubSeq(s, 1, k) # <<>> /\ Head(SubSeq(s, 1, k)) = Head(s)
<1> DEFINE t == SubSeq(s, 1, k)
           n == Len(s)
<1>1. n \in Nat /\ k \in Nat /\ k <= n /\ \A i \in 1 .. k : i \in 1 .. n /\ s[i] \in S
  BY LenProperties, ElementOfSeq
<1>2. /\ t \in Seq(S) /\ Len(t) = k /\ \A i \in 1 .. k : t[i] = s[i]
  <2>1. /\ t \in Seq(S) /\ Len(t) = IF 1 <= k THEN k - 1 + 1 ELSE 0
        /\ \A i \in 1 .. k - 1 + 1 : t[i] = s[1 + i - 1]
    BY <1>1, SubSeqProperties
  <2> HIDE DEF t
  <2> QED
    BY <1>1, <2>1
<1>3. /\ ToSet(t) = {t[i] : i \in 1 .. Len(t)}
      /\ IsInjective(t) <=> \A i, j \in 1 .. Len(t) : t[i] = t[j] => i = j
  <2> HIDE DEF t
  <2> QED
    BY <1>2, ElementsAre
<1>4. /\ ToSet(s) = {s[i] : i \in 1 .. n}
      /\ IsInjective(s) <=> \A i, j \in 1 .. n : s[i] = s[j] => i = j
  BY ElementsAre
<1>5. k = 0 => t = <<>>
  BY SubSeqEmpty
<1>6. Len(<<>>) = 0 /\ Head(s) = s[1]
  BY EmptySeq
<1> HIDE DEF t, n
<1>8. Head(t) = t[1]
  BY <1>2
<1>7. k > 0 => t # <<>> /\ Head(t) = Head(s)
  BY <1>1, <1>2, <1>6, <1>8
<1> QED
  BY <1>1, <1>2, <1>3, <1>4, <1>5, <1>7 DEF t

LEMMA FrontLastElements ==
    ASSUME NEW S, NEW s \in Seq(S), s # <<>>
    PROVE  /\ Front(s) \in Seq(S) /\ Last(s) \in S /\ ToSet(s) = ToSet(Front(s)) \cup {Last(s)}
           /\ IsInjective(s) => IsInjective(Front(s)) /\ Last(s) \notin ToSet(Front(s))
           /\ Front(s) # <<>> => Head(Front(s)) = Head(s)
           /\ Front(s) = <<>> => Last(s) = Head(s)
<1> DEFINE n == Len(s)
           t == SubSeq(s, 1, n - 1)
<1>1. n \in Nat \ {0} /\ n - 1 \in 0 .. n /\ s[n] \in S
  BY EmptySeq, ElementOfSeq
<1>2. /\ t \in Seq(S) /\ ToSet(t) = {s[i] : i \in 1 .. n - 1}
      /\ IsInjective(s) => IsInjective(t)
      /\ n - 1 = 0 => t = <<>>
      /\ n - 1 > 0 => t # <<>> /\ Head(t) = Head(s)
  <2> HIDE DEF n
  <2>1. n - 1 \in 0 .. Len(s)
    BY <1>1 DEF n
  <2> QED
    BY <2>1, PrefixElements
<1>3. /\ ToSet(s) = {s[i] : i \in 1 .. n}
      /\ IsInjective(s) <=> \A i, j \in 1 .. n : s[i] = s[j] => i = j
  BY ElementsAre
<1>4. Front(s) = t /\ Last(s) = s[n] /\ Head(s) = s[1]
  BY DEF Front, Last
<1> HIDE DEF t, n
<1>5. ToSet(s) = ToSet(t) \cup {s[n]}
  BY <1>1, <1>2, <1>3
<1>6. IsInjective(s) => s[n] \notin ToSet(t)
  BY <1>1, <1>2, <1>3
<1>7. (t # <<>> => Head(t) = Head(s)) /\ (t = <<>> => n = 1)
  BY <1>1, <1>2
<1> QED
  BY <1>1, <1>2, <1>4, <1>5, <1>6, <1>7

-----------------------------------------------------------------------------
(* What a file has after a write. *)

FileType == [lines : Seq(Event), part : Event \cup {Never}]
LogType == [Days -> FileType \cup {Never}]

LEMMA NeverIsNothing == Never \notin Event /\ Never \notin Nat /\ Never \notin FileType
BY AuditAssumption DEF FileType

LEMMA DaysAreFew == IsFiniteSet(Days) /\ Days \subseteq Nat
<1>1. PerDay \in Nat \ {0} /\ MaxTime \in Nat
  BY AuditAssumption
<1>2. MaxTime \div PerDay \in Nat
  BY <1>1
<1> QED
  BY <1>2, FS_Interval DEF Days, DayOf

LEMMA DaysGoUp ==
    ASSUME NEW s \in 0 .. MaxTime, NEW t \in 0 .. MaxTime
    PROVE  DayOf(s) \in Days /\ (DayOf(s) < DayOf(t) => s <= t)
<1>1. PerDay \in Nat \ {0} /\ MaxTime \in Nat
  BY AuditAssumption
<1>2. ASSUME NEW x \in Nat, NEW y \in Nat, x <= y PROVE x \div PerDay <= y \div PerDay
  BY <1>1, <1>2
<1>3. s \div PerDay \in Nat /\ t \div PerDay \in Nat /\ MaxTime \div PerDay \in Nat
  BY <1>1
<1>4. s \div PerDay <= MaxTime \div PerDay
  BY <1>1, <1>2
<1>5. s \div PerDay < t \div PerDay => s <= t
  <2>1. t <= s => t \div PerDay <= s \div PerDay
    BY <1>1, <1>2
  <2> QED
    BY <1>1, <1>3, <2>1
<1> QED
  BY <1>3, <1>4, <1>5 DEF Days, DayOf

\* All bytes of b follow those of f: what was there stays, nothing is twice, and
\* of b only the first event can get lost, to a line left unfinished.
LEMMA WithIs ==
    ASSUME NEW f \in FileType, NEW b \in Seq(Event)
    PROVE  /\ With(f, b) \in FileType
           /\ b = <<>> => With(f, b) = f
           /\ b # <<>> => With(f, b).part = Never
           /\ ToSet(f.lines) \subseteq ToSet(With(f, b).lines)
           /\ ToSet(With(f, b).lines) \subseteq ToSet(f.lines) \cup ToSet(b)
           /\ IsInjective(f.lines) /\ IsInjective(b) /\ ToSet(f.lines) \cap ToSet(b) = {}
                 => IsInjective(With(f, b).lines)
           /\ \A x \in ToSet(b) : \/ x \in ToSet(With(f, b).lines)
                                  \/ x = Head(b) /\ f.part # Never /\ f.part # x
<1>0. f.lines \in Seq(Event) /\ f.part \in Event \cup {Never}
  BY DEF FileType
<1>1. CASE b = <<>>
  <2>1. With(f, b) = f
    BY <1>1 DEF With
  <2>2. ToSet(b) = {}
    BY <1>1 DEF ToSet
  <2> QED
    BY <1>1, <2>1, <2>2
<1>2. CASE b # <<>>
  <2> DEFINE new == IF f.part \in {Never, Head(b)} THEN b ELSE Tail(b)
             g == With(f, b)
  <2>1. /\ Tail(b) \in Seq(Event) /\ ToSet(b) = {Head(b)} \cup ToSet(Tail(b))
        /\ IsInjective(b) => IsInjective(Tail(b))
    BY <1>2, HeadTailElements
  <2>2. /\ new \in Seq(Event) /\ ToSet(new) \subseteq ToSet(b)
        /\ IsInjective(b) => IsInjective(new)
        /\ \A x \in ToSet(b) : \/ x \in ToSet(new)
                               \/ x = Head(b) /\ f.part # Never /\ f.part # x
    BY <2>1
  <2>3. g = [lines |-> f.lines \o new, part |-> Never]
    BY <1>2 DEF With
  <2> HIDE DEF new, g
  <2>4. /\ f.lines \o new \in Seq(Event) /\ ToSet(f.lines \o new) = ToSet(f.lines) \cup ToSet(new)
        /\ IsInjective(f.lines) /\ IsInjective(new) /\ ToSet(f.lines) \cap ToSet(new) = {}
              => IsInjective(f.lines \o new)
    BY <1>0, <2>2, ConcatElements
  <2>5. g.lines = f.lines \o new /\ g.part = Never
    BY <2>3
  <2>6. g \in FileType
    BY <2>3, <2>4 DEF FileType
  <2>7. ToSet(f.lines) \cap ToSet(b) = {} => ToSet(f.lines) \cap ToSet(new) = {}
    BY <2>2
  <2> QED
    BY <1>2, <2>2, <2>4, <2>5, <2>6, <2>7 DEF g
<1> QED
  BY <1>1, <1>2

LEMMA WithPartIs ==
    ASSUME NEW f \in FileType, NEW b \in Seq(Event), NEW e \in Event
    PROVE  /\ WithPart(f, b, e) \in FileType /\ WithPart(f, b, e).lines = With(f, b).lines
           /\ WithPart(f, b, e).part
                 = IF With(f, b).part = Never THEN e ELSE With(f, b).part
<1> DEFINE g == With(f, b)
           p == IF g.part = Never THEN e ELSE g.part
<1>1. g \in FileType /\ WithPart(f, b, e) = [g EXCEPT !.part = p]
  BY WithIs DEF WithPart
<1> HIDE DEF g
<1>2. p \in Event \cup {Never}
  BY <1>1 DEF FileType
<1> HIDE DEF p
<1>3. [g EXCEPT !.part = p] \in FileType /\ [g EXCEPT !.part = p].lines = g.lines /\ [g EXCEPT !.part = p].part = p
  BY <1>1, <1>2 DEF FileType
<1> QED
  BY <1>1, <1>3 DEF g, p

-----------------------------------------------------------------------------
(* The invariant of the recorder. *)

OutType == [day : Days \cup {Never}, bad : BOOLEAN, buf : Seq(Event)]

AuditTypes ==
    /\ clock \in 0 .. MaxTime /\ stamp \in [Event -> 0 .. MaxTime]
    /\ step \in [Event -> {"new", "stamped", "queued", "taken", "dropped"}]
    /\ queue \in Seq(Event) /\ Len(queue) <= QueueSize
    /\ out \in OutType /\ log \in LogType
    /\ phase \in {"up", "closing", "closed"}
    /\ faults \in 0 .. MaxFaults
    /\ doomed \subseteq Event

\* The queue has each queued event once; the buffer has taken events, each once
\* and of the day of its file, which is there.
Memory ==
    /\ IsInjective(queue) /\ \A e \in Event : step[e] = "queued" <=> e \in ToSet(queue)
    /\ IsInjective(out.buf)
    /\ \A e \in ToSet(out.buf) : step[e] = "taken" /\ DayOf(stamp[e]) = out.day
    /\ out.day = Never => out.buf = <<>>
    /\ out.day # Never => /\ log[out.day] # Never
                          /\ ToSet(log[out.day].lines) \cap ToSet(out.buf) = {}
    /\ phase = "closed" => queue = <<>> /\ out.buf = <<>>

\* A file has taken events of its day, each once, and a taken one in part.
Disk ==
    \A d \in Days : log[d] # Never =>
       /\ IsInjective(log[d].lines)
       /\ \A e \in ToSet(log[d].lines) : step[e] = "taken" /\ DayOf(stamp[e]) = d
       /\ log[d].part # Never => step[log[d].part] = "taken"

\* The last line of day d is unfinished, and the buffer does not go on with it.
Loose(d) == /\ log[d] # Never /\ log[d].part # Never
            /\ ~(/\ out.day = d /\ ~out.bad /\ out.buf # <<>>
                 /\ Head(out.buf) = log[d].part)
LooseDays == {d \in Days : Loose(d)}

\* Each fault leaves a loose line at most, and a loose line spoils one event.
Spoils == IsFiniteSet(Torn) /\ Cardinality(Torn) + Cardinality(LooseDays) <= faults

AuditInv == AuditTypes /\ Memory /\ Disk /\ Spoils

\* What a step may do to the torn events and the loose lines.
Balanced ==
    \/ Torn' \subseteq Torn /\ LooseDays' \subseteq LooseDays /\ faults' >= faults
    \/ \E d \in Days : /\ Torn' \subseteq Torn /\ LooseDays' \subseteq LooseDays \cup {d}
                       /\ faults' >= faults + 1
    \/ \E d \in LooseDays, e \in Event : /\ Torn' \subseteq Torn \cup {e}
                                         /\ LooseDays' \subseteq LooseDays \ {d}
                                         /\ faults' >= faults

LEMMA BalancedSpoils ==
    ASSUME Spoils, faults \in Nat, faults' \in Nat, Balanced
    PROVE  Spoils'
<1> DEFINE T == Torn
           L == LooseDays
           U == Torn'
           M == LooseDays'
<1>1. IsFiniteSet(T) /\ IsFiniteSet(L) /\ IsFiniteSet(M)
  <2>1. L \subseteq Days /\ M \subseteq Days
    BY DEF LooseDays
  <2> QED
    BY <2>1, DaysAreFew, FS_Subset DEF Spoils
<1>2. Cardinality(T) + Cardinality(L) <= faults
  BY DEF Spoils
<1>3. Cardinality(T) \in Nat /\ Cardinality(L) \in Nat
  BY <1>1, FS_CardinalityType
<1>4. \/ U \subseteq T /\ M \subseteq L /\ faults' >= faults
      \/ \E d \in Days : U \subseteq T /\ M \subseteq L \cup {d} /\ faults' >= faults + 1
      \/ \E d \in L, e \in Event : U \subseteq T \cup {e} /\ M \subseteq L \ {d} /\ faults' >= faults
  BY DEF Balanced
<1>5. Spoils' <=> IsFiniteSet(U) /\ Cardinality(U) + Cardinality(M) <= faults'
  BY DEF Spoils
<1> HIDE DEF T, L, U, M
<1>6. CASE U \subseteq T /\ M \subseteq L /\ faults' >= faults
  <2>1. /\ IsFiniteSet(U) /\ Cardinality(U) <= Cardinality(T) /\ Cardinality(M) <= Cardinality(L)
        /\ Cardinality(U) \in Nat /\ Cardinality(M) \in Nat
    BY <1>1, <1>6, FS_Subset, FS_CardinalityType
  <2> QED
    BY <1>2, <1>3, <1>5, <1>6, <2>1
<1>7. ASSUME NEW d \in Days, U \subseteq T, M \subseteq L \cup {d}, faults' >= faults + 1
      PROVE  Spoils'
  <2>1. /\ IsFiniteSet(L \cup {d})
        /\ Cardinality(L \cup {d}) = Cardinality(L) \/ Cardinality(L \cup {d}) = Cardinality(L) + 1
    BY <1>1, FS_AddElement
  <2>2. /\ IsFiniteSet(U) /\ Cardinality(U) <= Cardinality(T)
        /\ Cardinality(M) <= Cardinality(L \cup {d})
        /\ Cardinality(U) \in Nat /\ Cardinality(M) \in Nat
    BY <1>1, <1>7, <2>1, FS_Subset, FS_CardinalityType
  <2> QED
    BY <1>2, <1>3, <1>5, <1>7, <2>1, <2>2
<1>8. ASSUME NEW d \in L, NEW e \in Event, U \subseteq T \cup {e}, M \subseteq L \ {d},
             faults' >= faults
      PROVE  Spoils'
  <2>1. IsFiniteSet(L \ {d}) /\ Cardinality(L \ {d}) = Cardinality(L) - 1
    BY <1>1, FS_RemoveElement
  <2>2. /\ IsFiniteSet(T \cup {e})
        /\ Cardinality(T \cup {e}) = Cardinality(T) \/ Cardinality(T \cup {e}) = Cardinality(T) + 1
    BY <1>1, FS_AddElement
  <2>3. /\ IsFiniteSet(U) /\ Cardinality(U) <= Cardinality(T \cup {e})
        /\ Cardinality(M) <= Cardinality(L \ {d})
        /\ Cardinality(U) \in Nat /\ Cardinality(M) \in Nat
    BY <1>1, <1>8, <2>1, <2>2, FS_Subset, FS_CardinalityType
  <2> QED
    BY <1>2, <1>3, <1>5, <1>8, <2>1, <2>2, <2>3
<1> QED
  BY <1>4, <1>6, <1>7, <1>8

-----------------------------------------------------------------------------
(* A flush, and what it leaves. *)

FlushDone(r) ==
    /\ r.log \in LogType /\ r.bad \in BOOLEAN /\ r.lost \subseteq Event
    /\ \A d \in Days : d # out.day => r.log[d] = log[d]
    /\ out.buf = <<>> \/ out.bad => r.log = log /\ r.bad = out.bad
    /\ r.bad /\ ~out.bad => faults < MaxFaults
    /\ out.buf # <<>> =>
          /\ r.log[out.day] \in FileType
          /\ IsInjective(r.log[out.day].lines)
          /\ ToSet(log[out.day].lines) \subseteq ToSet(r.log[out.day].lines)
          /\ ToSet(r.log[out.day].lines) \subseteq ToSet(log[out.day].lines) \cup ToSet(out.buf)
          /\ r.log[out.day].part \in {Never, log[out.day].part} \cup ToSet(out.buf)
          /\ ~r.bad => r.log[out.day].part = Never
          /\ \A x \in ToSet(out.buf) :
                \/ x \in ToSet(r.log[out.day].lines) \cup r.lost
                \/ ~r.bad /\ x = Head(out.buf) /\ log[out.day].part \notin {Never, x}

\* The current file, when the buffer has something for it.
LEMMA CurrentFile ==
    ASSUME AuditInv, out.buf # <<>>
    PROVE  /\ out.day \in Days /\ log[out.day] \in FileType /\ log[out.day] # Never
           /\ out.buf \in Seq(Event) /\ out.bad \in BOOLEAN
           /\ IsInjective(log[out.day].lines) /\ IsInjective(out.buf)
           /\ ToSet(log[out.day].lines) \cap ToSet(out.buf) = {}
<1>1. out.day \in Days \cup {Never} /\ out.buf \in Seq(Event) /\ out.bad \in BOOLEAN
  BY DEF AuditInv, AuditTypes, OutType
<1>2. out.day # Never
  BY DEF AuditInv, Memory
<1>3. log[out.day] \in FileType /\ log[out.day] # Never
  BY <1>1, <1>2 DEF AuditInv, AuditTypes, LogType, Memory
<1> QED
  BY <1>1, <1>2, <1>3 DEF AuditInv, Memory, Disk

LEMMA FlushIs ==
    ASSUME AuditInv, NEW r \in Flushes
    PROVE  FlushDone(r)
<1> DEFINE b == out.buf
           f == log[out.day]
           Wrote(g, failed) == /\ r.log = [log EXCEPT ![out.day] = g] /\ r.bad = failed
                               /\ r.lost = IF failed THEN ToSet(b) \ ToSet(g.lines) ELSE {}
<1>0. log \in LogType /\ out.bad \in BOOLEAN /\ b \in Seq(Event)
  BY DEF AuditInv, AuditTypes, OutType
<1>1. CASE b = <<>>
  <2>1. r = [log |-> log, bad |-> out.bad, lost |-> {}]
    BY <1>1 DEF Flushes
  <2>2. r.log = log /\ r.bad = out.bad /\ r.lost = {}
    BY <2>1
  <2> QED
    BY <1>0, <1>1, <2>2 DEF FlushDone
<1>2. CASE b # <<>>
  <2>1. /\ out.day \in Days /\ f \in FileType
        /\ IsInjective(f.lines) /\ IsInjective(b) /\ ToSet(f.lines) \cap ToSet(b) = {}
    BY <1>2, CurrentFile
  <2>2. ToSet(b) \subseteq Event
    BY <1>0, ElementsAre
  <2>g. ASSUME NEW g \in FileType, NEW failed \in BOOLEAN, Wrote(g, failed)
        PROVE  /\ r.log \in LogType /\ r.bad = failed /\ r.lost \subseteq Event
               /\ r.log[out.day] = g
               /\ \A d \in Days : d # out.day => r.log[d] = log[d]
               /\ failed => \A x \in ToSet(b) : x \in ToSet(g.lines) \cup r.lost
    BY <1>0, <2>1, <2>2, <2>g DEF LogType
  <2>3. CASE out.bad
    <3>1. Wrote(f, TRUE)
      BY <1>2, <2>3 DEF Flushes
    <3>2. r.log = log
      BY <1>0, <2>1, <3>1 DEF LogType
    <3> HIDE DEF Wrote
    <3>3. /\ r.log \in LogType /\ r.bad = TRUE /\ r.lost \subseteq Event /\ r.log[out.day] = f
          /\ \A x \in ToSet(b) : x \in ToSet(f.lines) \cup r.lost
      BY <2>1, <2>g, <3>1
    <3> QED
      BY <2>1, <2>3, <3>2, <3>3 DEF FlushDone
  <2>4. CASE ~out.bad
    <3>1. \/ Wrote(With(f, b), FALSE)
          \/ /\ faults < MaxFaults
             /\ \E k \in 0 .. Len(b) - 1 :
                   \/ Wrote(With(f, SubSeq(b, 1, k)), TRUE)
                   \/ Wrote(WithPart(f, SubSeq(b, 1, k), b[k + 1]), TRUE)
      BY <1>2, <2>4 DEF Flushes
    <3>2. CASE Wrote(With(f, b), FALSE)
      <4> DEFINE g == With(f, b)
      <4>1. /\ g \in FileType /\ g.part = Never /\ ToSet(f.lines) \subseteq ToSet(g.lines)
            /\ ToSet(g.lines) \subseteq ToSet(f.lines) \cup ToSet(b) /\ IsInjective(g.lines)
            /\ \A x \in ToSet(b) : \/ x \in ToSet(g.lines)
                                   \/ x = Head(b) /\ f.part # Never /\ f.part # x
        BY <1>0, <1>2, <2>1, WithIs
      <4> HIDE DEF g
      <4>2. Wrote(g, FALSE)
        BY <3>2 DEF g
      <4> HIDE DEF Wrote
      <4>3. /\ r.log \in LogType /\ r.bad = FALSE /\ r.lost \subseteq Event /\ r.log[out.day] = g
            /\ \A d \in Days : d # out.day => r.log[d] = log[d]
        BY <2>g, <4>1, <4>2
      <4> QED
        BY <1>2, <2>4, <4>1, <4>3 DEF FlushDone
    <3>3. ASSUME faults < MaxFaults, NEW k \in 0 .. Len(b) - 1,
                 \/ Wrote(With(f, SubSeq(b, 1, k)), TRUE)
                 \/ Wrote(WithPart(f, SubSeq(b, 1, k), b[k + 1]), TRUE)
          PROVE  FlushDone(r)
      <4> DEFINE s == SubSeq(b, 1, k)
                 h == With(f, s)
      <4>1. k \in 0 .. Len(b) /\ k + 1 \in 1 .. Len(b)
        BY <1>0, ElementsAre
      <4>2. s \in Seq(Event) /\ ToSet(s) \subseteq ToSet(b) /\ IsInjective(s)
        BY <1>0, <2>1, <4>1, PrefixElements
      <4>3. b[k + 1] \in ToSet(b) /\ b[k + 1] \in Event
        BY <1>0, <2>2, <4>1, ElementsAre
      <4> HIDE DEF s
      <4>4. /\ h \in FileType /\ ToSet(f.lines) \subseteq ToSet(h.lines)
            /\ ToSet(h.lines) \subseteq ToSet(f.lines) \cup ToSet(s)
            /\ IsInjective(h.lines)
            /\ s = <<>> => h = f
            /\ s # <<>> => h.part = Never
        <5>1. ToSet(f.lines) \cap ToSet(s) = {}
          BY <2>1, <4>2
        <5> HIDE DEF f
        <5> QED
          BY <2>1, <4>2, <5>1, WithIs DEF h
      <4>p. /\ WithPart(f, s, b[k + 1]) \in FileType
            /\ WithPart(f, s, b[k + 1]).lines = h.lines
            /\ WithPart(f, s, b[k + 1]).part = IF h.part = Never THEN b[k + 1] ELSE h.part
        BY <2>1, <4>2, <4>3, WithPartIs
      <4>5. PICK g \in FileType : /\ Wrote(g, TRUE) /\ g.lines = h.lines
                                  /\ g.part \in {h.part, b[k + 1]}
        BY <3>3, <4>4, <4>p DEF s
      <4> HIDE DEF h, Wrote
      <4>6. /\ r.log \in LogType /\ r.bad = TRUE /\ r.lost \subseteq Event /\ r.log[out.day] = g
            /\ \A d \in Days : d # out.day => r.log[d] = log[d]
            /\ \A x \in ToSet(b) : x \in ToSet(g.lines) \cup r.lost
        BY <2>g, <4>5
      <4>7. g.part \in {Never, f.part} \cup ToSet(b)
        BY <4>3, <4>4, <4>5
      <4>8. /\ IsInjective(g.lines) /\ ToSet(f.lines) \subseteq ToSet(g.lines)
            /\ ToSet(g.lines) \subseteq ToSet(f.lines) \cup ToSet(b)
        BY <4>2, <4>4, <4>5
      <4> QED
        BY <1>2, <2>4, <3>3, <4>6, <4>7, <4>8 DEF FlushDone
    <3> QED
      BY <3>1, <3>2, <3>3
  <2> QED
    BY <1>0, <2>3, <2>4
<1> QED
  BY <1>1, <1>2

LEMMA CostIs ==
    ASSUME AuditInv, NEW r, FlushDone(r)
    PROVE  /\ Cost(r) \in {0, 1} /\ faults + Cost(r) \in 0 .. MaxFaults
           /\ r.bad /\ ~out.bad => Cost(r) = 1
           /\ ~(r.bad /\ ~out.bad) => Cost(r) = 0
BY AuditAssumption DEF AuditInv, AuditTypes, FlushDone, Cost

\* What is on disk after a flush, and perhaps a new file.
FlushedLog(r) == \A d \in Days : \/ log'[d] = r.log[d]
                                 \/ log[d] = Never /\ log'[d] = NoLines

LEMMA FlushDisk ==
    ASSUME AuditInv, NEW r, FlushDone(r), FlushedLog(r), stamp' = stamp,
           \A e \in Event : step[e] = "taken" => step'[e] = "taken"
    PROVE  Disk'
<1> SUFFICES ASSUME NEW d \in Days, log'[d] # Never
             PROVE  /\ IsInjective(log'[d].lines)
                    /\ \A e \in ToSet(log'[d].lines) : step'[e] = "taken" /\ DayOf(stamp'[e]) = d
                    /\ log'[d].part # Never => step'[log'[d].part] = "taken"
  BY DEF Disk
<1>0. /\ log \in LogType /\ Disk
      /\ out.buf # <<>> => \A e \in ToSet(out.buf) : e \in Event /\ step[e] = "taken" /\ DayOf(stamp[e]) = out.day
  <2>1. out.buf # <<>> => ToSet(out.buf) \subseteq Event
    BY CurrentFile, ElementsAre
  <2> QED
    BY <2>1 DEF AuditInv, AuditTypes, Memory
<1>old. ASSUME log[d] # Never
        PROVE  /\ ToSet(log[d].lines) \subseteq Event /\ log[d].part \in Event \cup {Never}
               /\ IsInjective(log[d].lines)
               /\ \A e \in ToSet(log[d].lines) : step[e] = "taken" /\ DayOf(stamp[e]) = d
               /\ log[d].part # Never => step[log[d].part] = "taken"
  <2>1. log[d] \in FileType
    BY <1>0, <1>old DEF LogType
  <2>2. log[d].lines \in Seq(Event) /\ log[d].part \in Event \cup {Never}
    BY <2>1 DEF FileType
  <2> QED
    BY <1>0, <1>old, <2>2, ElementsAre DEF Disk
<1>1. CASE log[d] = Never /\ log'[d] = NoLines
  <2>1. log'[d].lines = <<>> /\ log'[d].part = Never
    BY <1>1 DEF NoLines
  <2>2. ToSet(<<>>) = {} /\ IsInjective(<<>>)
    BY DEF ToSet, IsInjective
  <2> QED
    BY <2>1, <2>2
<1>2. CASE log'[d] = r.log[d] /\ (d # out.day \/ out.buf = <<>>)
  <2>1. log'[d] = log[d]
    BY <1>2 DEF FlushDone
  <2> QED
    BY <1>old, <2>1
<1>3. CASE log'[d] = r.log[d] /\ d = out.day /\ out.buf # <<>>
  <2>1. /\ IsInjective(log'[d].lines)
        /\ ToSet(log'[d].lines) \subseteq ToSet(log[d].lines) \cup ToSet(out.buf)
        /\ log'[d].part \in {Never, log[d].part} \cup ToSet(out.buf)
    BY <1>3 DEF FlushDone
  <2>2. log[d] # Never
    BY <1>3, CurrentFile
  <2> QED
    BY <1>0, <1>3, <1>old, <2>1, <2>2
<1> QED
  BY <1>1, <1>2, <1>3 DEF FlushedLog

LEMMA FlushBalance ==
    ASSUME AuditInv, NEW r, FlushDone(r), FlushedLog(r), log' \in LogType,
           doomed \cup r.lost \subseteq doomed', faults' >= faults + Cost(r), faults' \in Nat,
           \A e \in Event : step'[e] = "taken" =>
              step[e] = "taken" \/ e \in doomed' \/ e \in ToSet(out'.buf),
           \/ out'.buf = <<>>
           \/ /\ out'.day # out.day /\ out'.buf # <<>> /\ Head(out'.buf) \in Event
              /\ step[Head(out'.buf)] # "taken"
    PROVE  Balanced
<1> DEFINE b == out.buf
           f == log[out.day]
           spoilt == b # <<>> /\ ~r.bad /\ f.part \notin {Never, Head(b)}
<1>0. faults \in Nat /\ Cost(r) \in {0, 1}
  BY CostIs DEF AuditInv, AuditTypes
<1>1. ASSUME NEW d \in Days, log[d] # Never
      PROVE  log'[d] # Never /\ ToSet(log[d].lines) \subseteq ToSet(log'[d].lines)
  <2>1. log'[d] = r.log[d]
    BY <1>1 DEF FlushedLog
  <2>2. CASE d # out.day \/ b = <<>>
    BY <1>1, <2>1, <2>2 DEF FlushDone
  <2>3. CASE d = out.day /\ b # <<>>
    BY <2>1, <2>3, NeverIsNothing DEF FlushDone
  <2> QED
    BY <2>2, <2>3
<1>2. ASSUME NEW e \in Torn' PROVE e \in Torn \/ (spoilt /\ e = Head(b))
  <2>1. /\ e \in Event /\ step'[e] = "taken" /\ e \notin doomed' /\ e \notin ToSet(out'.buf)
        /\ \A d \in Days : log'[d] # Never => e \notin ToSet(log'[d].lines)
    BY DEF Torn, Readable, ReadableIn, InBuffer, ToSet
  <2>2. step[e] = "taken" /\ e \notin doomed /\ e \notin r.lost
    BY <2>1
  <2>3. \A d \in Days : log[d] # Never => e \notin ToSet(log[d].lines)
    BY <1>1, <2>1
  <2>4. e \in Torn \/ e \in ToSet(b)
    BY <2>1, <2>2, <2>3 DEF Torn, Readable, ReadableIn, InBuffer, ToSet
  <2>5. ASSUME e \in ToSet(b) PROVE spoilt /\ e = Head(b)
    <3>1. b # <<>>
      BY <2>5 DEF ToSet
    <3>2. out.day \in Days /\ f # Never
      BY <3>1, CurrentFile
    <3>3. log'[out.day] = r.log[out.day] /\ log'[out.day] # Never
      BY <1>1, <3>2 DEF FlushedLog
    <3>4. e \notin ToSet(r.log[out.day].lines)
      BY <2>1, <3>2, <3>3
    <3> QED
      BY <2>2, <2>5, <3>1, <3>4 DEF FlushDone
  <2> QED
    BY <2>4, <2>5
<1>3. ASSUME NEW d \in Days, d # out.day, Loose(d)' PROVE Loose(d)
  <2>1. log'[d] # Never /\ log'[d].part # Never
    BY <1>3 DEF Loose
  <2>2. log'[d] = log[d]
    <3>1. log'[d] # NoLines
      BY <2>1 DEF NoLines
    <3> QED
      BY <1>3, <3>1 DEF FlushedLog, FlushDone
  <2> QED
    BY <1>3, <2>1, <2>2 DEF Loose
<1>4. CASE spoilt
  <2>1. out.day \in Days /\ f # Never /\ Head(b) \in Event /\ out.bad \in BOOLEAN
    BY <1>4, CurrentFile, HeadTailElements
  <2>2. ~out.bad
    BY <1>4 DEF FlushDone
  <2>3. Loose(out.day)
    BY <1>4, <2>1 DEF Loose
  <2>4. ASSUME NEW d \in Days, d = out.day PROVE ~Loose(d)'
    <3>1. log'[d] = r.log[d]
      BY <2>1, <2>4 DEF FlushedLog
    <3>2. r.log[d].part = Never
      BY <1>4, <2>4 DEF FlushDone
    <3> QED
      BY <3>1, <3>2 DEF Loose
  <2>5. LooseDays' \subseteq LooseDays \ {out.day} /\ out.day \in LooseDays
    <3>1. \A d \in Days : Loose(d)' => Loose(d) /\ d # out.day
      BY <1>3, <2>4
    <3> QED
      BY <2>1, <2>3, <3>1 DEF LooseDays
  <2>6. Torn' \subseteq Torn \cup {Head(b)}
    BY <1>2
  <2>7. faults' >= faults
    BY <1>0
  <2> QED
    BY <2>1, <2>5, <2>6, <2>7 DEF Balanced
<1>5. CASE ~spoilt /\ b # <<>> /\ r.bad /\ ~out.bad
  <2>1. Torn' \subseteq Torn /\ out.day \in Days
    BY <1>2, <1>5, CurrentFile
  <2>2. LooseDays' \subseteq LooseDays \cup {out.day}
    <3>1. \A d \in Days : Loose(d)' => Loose(d) \/ d = out.day
      BY <1>3
    <3> QED
      BY <3>1 DEF LooseDays
  <2>3. faults' >= faults + 1
    BY <1>0, <1>5, CostIs
  <2> QED
    BY <2>1, <2>2, <2>3 DEF Balanced
<1>6. CASE ~spoilt /\ (b = <<>> \/ ~r.bad \/ out.bad)
  <2>1. Torn' \subseteq Torn
    BY <1>2, <1>6
  <2>2. ASSUME NEW d \in Days, d = out.day, Loose(d)' PROVE Loose(d)
    <3>1. log'[d] # Never /\ log'[d].part # Never
      BY <2>2 DEF Loose
    <3>2. log'[d] = r.log[d]
      <4>1. log'[d] # NoLines
        BY <3>1 DEF NoLines
      <4> QED
        BY <2>2, <4>1 DEF FlushedLog
    <3>3. b = <<>> \/ out.bad
      BY <1>6, <2>2, <3>1, <3>2 DEF FlushDone
    <3>4. r.log = log
      BY <3>3 DEF FlushDone
    <3> QED
      BY <3>1, <3>2, <3>3, <3>4 DEF Loose
  <2>3. LooseDays' \subseteq LooseDays
    <3>1. \A d \in Days : Loose(d)' => Loose(d)
      BY <1>3, <2>2
    <3> QED
      BY <3>1 DEF LooseDays
  <2>4. faults' >= faults
    BY <1>0
  <2> QED
    BY <2>1, <2>3, <2>4 DEF Balanced
<1>7. r.bad \in BOOLEAN /\ out.bad \in BOOLEAN
  BY DEF FlushDone, AuditInv, AuditTypes, OutType
<1> QED
  BY <1>4, <1>5, <1>6, <1>7

-----------------------------------------------------------------------------
(* Each step keeps the invariant. *)

LEMMA AuditStart == AuditInit => AuditInv
<1> SUFFICES ASSUME AuditInit PROVE AuditInv
  OBVIOUS
<1>1. /\ clock = 0 /\ stamp = [e \in Event |-> 0] /\ step = [e \in Event |-> "new"]
      /\ queue = <<>> /\ out = NoOut /\ log = [d \in Days |-> Never]
      /\ phase = "up" /\ faults = 0 /\ doomed = {}
  BY DEF AuditInit
<1>2. out \in OutType /\ out.day = Never /\ out.bad = FALSE /\ out.buf = <<>>
  BY <1>1 DEF NoOut, OutType
<1>3. ToSet(<<>>) = {} /\ IsInjective(<<>>)
  BY DEF ToSet, IsInjective
<1>4. AuditTypes
  <2>1. queue \in Seq(Event) /\ Len(queue) <= QueueSize
    BY <1>1, AuditAssumption, EmptySeq
  <2>2. log \in LogType
    BY <1>1 DEF LogType
  <2>3. 0 \in 0 .. MaxTime /\ 0 \in 0 .. MaxFaults
    BY AuditAssumption
  <2> QED
    BY <1>1, <1>2, <2>1, <2>2, <2>3 DEF AuditTypes
<1>5. Memory
  BY <1>1, <1>2, <1>3 DEF Memory
<1>6. Disk
  BY <1>1 DEF Disk
<1>7. Spoils
  <2>1. Torn = {} /\ LooseDays = {}
    BY <1>1 DEF Torn, LooseDays, Loose
  <2> QED
    BY <1>1, <2>1, FS_EmptySet DEF Spoils
<1> QED
  BY <1>4, <1>5, <1>6, <1>7 DEF AuditInv

LEMMA QuietKeeps ==
    ASSUME AuditInv, UNCHANGED <<out, log, faults, doomed>>,
           \A e \in Event : step'[e] = "taken" <=> step[e] = "taken",
           \A e \in Event : step[e] = "taken" => stamp'[e] = stamp[e]
    PROVE  Disk' /\ Spoils'
<1>1. Torn' = Torn /\ LooseDays' = LooseDays
  BY DEF Torn, Readable, ReadableIn, InBuffer, LooseDays, Loose
<1>2. Spoils'
  BY <1>1 DEF AuditInv, Spoils
<1>3. ASSUME NEW d \in Days, log[d] # Never
      PROVE  /\ IsInjective(log[d].lines)
             /\ \A e \in ToSet(log[d].lines) : step'[e] = "taken" /\ DayOf(stamp'[e]) = d
             /\ log[d].part # Never => step'[log[d].part] = "taken"
  <2>1. log[d] \in FileType
    BY <1>3 DEF AuditInv, AuditTypes, LogType
  <2>2. log[d].lines \in Seq(Event) /\ log[d].part \in Event \cup {Never}
    BY <2>1 DEF FileType
  <2>3. ToSet(log[d].lines) \subseteq Event
    BY <2>2, ElementsAre
  <2> QED
    BY <1>3, <2>2, <2>3 DEF AuditInv, Disk
<1> QED
  BY <1>2, <1>3 DEF Disk

LEMMA TimeOrCloseKeeps == ASSUME AuditInv, Time \/ Close PROVE AuditInv'
<1>1. /\ UNCHANGED <<stamp, step, queue, out, log, faults, doomed>>
      /\ phase' = phase \/ phase' = "closing"
      /\ clock' \in 0 .. MaxTime
  BY AuditAssumption DEF Time, Close, AuditInv, AuditTypes
<1>2. Disk' /\ Spoils'
  BY <1>1, QuietKeeps
<1>3. AuditTypes'
  BY <1>1 DEF AuditInv, AuditTypes
<1>4. Memory'
  BY <1>1 DEF AuditInv, Memory
<1> QED
  BY <1>2, <1>3, <1>4 DEF AuditInv

LEMMA StampKeeps == ASSUME AuditInv, NEW e \in Event, Stamp(e) PROVE AuditInv'
<1>1. /\ step[e] = "new" /\ stamp' = [stamp EXCEPT ![e] = clock]
      /\ step' = [step EXCEPT ![e] = "stamped"]
      /\ UNCHANGED <<clock, queue, out, log, phase, faults, doomed>>
  BY DEF Stamp
<1>2. /\ \A x \in Event : step'[x] = IF x = e THEN "stamped" ELSE step[x]
      /\ \A x \in Event : x # e => stamp'[x] = stamp[x]
  BY <1>1 DEF AuditInv, AuditTypes
<1>3. Disk' /\ Spoils'
  BY <1>1, <1>2, QuietKeeps
<1>4. AuditTypes'
  BY <1>1 DEF AuditInv, AuditTypes
<1>5. Memory'
  <2>1. ToSet(out.buf) \subseteq Event
    BY ElementsAre DEF AuditInv, AuditTypes, OutType
  <2>2. /\ \A x \in Event : step'[x] = "queued" <=> x \in ToSet(queue)
        /\ \A x \in ToSet(out.buf) : step'[x] = "taken" /\ DayOf(stamp'[x]) = out.day
    BY <1>1, <1>2, <2>1 DEF AuditInv, Memory
  <2> QED
    BY <1>1, <2>2 DEF AuditInv, Memory
<1> QED
  BY <1>3, <1>4, <1>5 DEF AuditInv

LEMMA SendKeeps == ASSUME AuditInv, NEW e \in Event, Send(e) PROVE AuditInv'
<1>0. /\ queue \in Seq(Event) /\ Len(queue) <= QueueSize
      /\ step \in [Event -> {"new", "stamped", "queued", "taken", "dropped"}]
      /\ IsInjective(queue) /\ \A x \in Event : step[x] = "queued" <=> x \in ToSet(queue)
      /\ ToSet(out.buf) \subseteq Event
  <2>1. ToSet(out.buf) \subseteq Event
    BY ElementsAre DEF AuditInv, AuditTypes, OutType
  <2> QED
    BY <2>1 DEF AuditInv, AuditTypes, Memory
<1>1. /\ step[e] = "stamped"
      /\ UNCHANGED <<clock, stamp, out, log, phase, faults, doomed>>
  BY DEF Send
<1>2. /\ step' \in [Event -> {"new", "stamped", "queued", "taken", "dropped"}]
      /\ \A x \in Event : x # e => step'[x] = step[x]
      /\ step'[e] \in {"queued", "dropped"}
  BY <1>0 DEF Send
<1>3. /\ queue' \in Seq(Event) /\ Len(queue') <= QueueSize /\ IsInjective(queue')
      /\ \A x \in Event : step'[x] = "queued" <=> x \in ToSet(queue')
      /\ queue' # queue => phase = "up"
  <2>1. CASE phase = "up" /\ Len(queue) < QueueSize
    <3>1. queue' = Append(queue, e) /\ step'[e] = "queued"
      BY <1>0, <2>1 DEF Send
    <3>2. e \notin ToSet(queue)
      BY <1>0, <1>1
    <3>3. /\ Append(queue, e) \in Seq(Event) /\ ToSet(Append(queue, e)) = ToSet(queue) \cup {e}
          /\ Len(Append(queue, e)) = Len(queue) + 1 /\ IsInjective(Append(queue, e))
      BY <1>0, <3>2, AppendElements
    <3>4. Len(queue) + 1 <= QueueSize
      BY <1>0, <2>1, AuditAssumption, LenProperties
    <3> QED
      BY <1>0, <1>2, <2>1, <3>1, <3>3, <3>4
  <2>2. CASE ~(phase = "up" /\ Len(queue) < QueueSize)
    <3>1. queue' = queue /\ step'[e] = "dropped"
      BY <1>0, <2>2 DEF Send
    <3> QED
      BY <1>0, <1>1, <1>2, <3>1
  <2> QED
    BY <2>1, <2>2
<1>4. Disk' /\ Spoils'
  BY <1>1, <1>2, QuietKeeps
<1>5. AuditTypes'
  BY <1>1, <1>2, <1>3 DEF AuditInv, AuditTypes
<1>6. Memory'
  <2>1. \A x \in ToSet(out.buf) : step'[x] = "taken" /\ DayOf(stamp'[x]) = out.day
    BY <1>0, <1>1, <1>2 DEF AuditInv, Memory
  <2>2. phase = "closed" => queue' = <<>> /\ out.buf = <<>>
    BY <1>3 DEF AuditInv, Memory
  <2> QED
    BY <1>1, <1>3, <2>1, <2>2 DEF AuditInv, Memory
<1> QED
  BY <1>4, <1>5, <1>6 DEF AuditInv

\* The first event of the queue is taken.
LEMMA HeadIsTaken ==
    ASSUME AuditInv, queue # <<>>, step' = [step EXCEPT ![Head(queue)] = "taken"],
           queue' = Tail(queue)
    PROVE  /\ Head(queue) \in Event /\ step[Head(queue)] = "queued"
           /\ DayOf(stamp[Head(queue)]) \in Days /\ phase # "closed"
           /\ step' \in [Event -> {"new", "stamped", "queued", "taken", "dropped"}]
           /\ \A x \in Event : step'[x] = IF x = Head(queue) THEN "taken" ELSE step[x]
           /\ queue' \in Seq(Event) /\ Len(queue') <= QueueSize /\ IsInjective(queue')
           /\ \A x \in Event : step'[x] = "queued" <=> x \in ToSet(queue')
<1>0. /\ queue \in Seq(Event) /\ Len(queue) <= QueueSize /\ Len(queue) \in Nat
      /\ step \in [Event -> {"new", "stamped", "queued", "taken", "dropped"}]
      /\ IsInjective(queue) /\ \A x \in Event : step[x] = "queued" <=> x \in ToSet(queue)
      /\ stamp \in [Event -> 0 .. MaxTime] /\ QueueSize \in Nat
      /\ phase = "closed" => queue = <<>>
  BY LenProperties, AuditAssumption DEF AuditInv, AuditTypes, Memory
<1> DEFINE h == Head(queue)
           t == Tail(queue)
<1>1. /\ t \in Seq(Event) /\ h \in Event /\ ToSet(queue) = {h} \cup ToSet(t)
      /\ Len(t) = Len(queue) - 1 /\ IsInjective(t) /\ h \notin ToSet(t)
  BY <1>0, HeadTailElements
<1>2. step' = [step EXCEPT ![h] = "taken"] /\ queue' = t
  OBVIOUS
<1> HIDE DEF h, t
<1>3. step[h] = "queued" /\ DayOf(stamp[h]) \in Days
  BY <1>0, <1>1, DaysGoUp
<1>4. /\ step' \in [Event -> {"new", "stamped", "queued", "taken", "dropped"}]
      /\ \A x \in Event : step'[x] = IF x = h THEN "taken" ELSE step[x]
  BY <1>0, <1>1, <1>2
<1>5. \A x \in Event : step'[x] = "queued" <=> x \in ToSet(t)
  BY <1>0, <1>1, <1>4
<1>6. Len(t) <= QueueSize
  BY <1>0, <1>1
<1> QED
  BY <1>0, <1>1, <1>2, <1>3, <1>4, <1>5, <1>6 DEF h

LEMMA TakeSameDayKeeps ==
    ASSUME AuditInv, queue # <<>>, out.day = DayOf(stamp[Head(queue)]),
           out' = [out EXCEPT !.buf = Append(@, Head(queue))],
           step' = [step EXCEPT ![Head(queue)] = "taken"], queue' = Tail(queue),
           UNCHANGED <<clock, stamp, phase, log, faults, doomed>>
    PROVE  AuditInv'
<1> DEFINE h == Head(queue)
           b == out.buf
           c == Append(b, h)
<1>1. /\ h \in Event /\ step[h] = "queued" /\ DayOf(stamp[h]) \in Days /\ phase # "closed"
      /\ step' \in [Event -> {"new", "stamped", "queued", "taken", "dropped"}]
      /\ \A x \in Event : step'[x] = IF x = h THEN "taken" ELSE step[x]
      /\ queue' \in Seq(Event) /\ Len(queue') <= QueueSize /\ IsInjective(queue')
      /\ \A x \in Event : step'[x] = "queued" <=> x \in ToSet(queue')
  BY HeadIsTaken
<1>2. /\ out \in OutType /\ b \in Seq(Event) /\ ToSet(b) \subseteq Event /\ log \in LogType
      /\ out.day \in Days /\ out.day # Never /\ DayOf(stamp[h]) = out.day
  <2>1. out \in OutType /\ b \in Seq(Event) /\ log \in LogType
    BY DEF AuditInv, AuditTypes, OutType
  <2>2. out.day \in Days /\ out.day # Never
    BY <1>1, DaysAreFew, NeverIsNothing
  <2> QED
    BY <2>1, <2>2, ElementsAre
<1>3. /\ IsInjective(b) /\ \A x \in ToSet(b) : step[x] = "taken" /\ DayOf(stamp[x]) = out.day
      /\ log[out.day] # Never /\ ToSet(log[out.day].lines) \cap ToSet(b) = {}
  BY <1>2 DEF AuditInv, Memory
<1>4. /\ c \in Seq(Event) /\ ToSet(c) = ToSet(b) \cup {h} /\ c # <<>> /\ IsInjective(c)
      /\ Head(c) = IF b = <<>> THEN h ELSE Head(b)
  <2>1. h \notin ToSet(b)
    BY <1>1, <1>3
  <2> HIDE DEF b, h
  <2> QED
    BY <1>1, <1>2, <1>3, <2>1, AppendElements
<1>5. out' = [out EXCEPT !.buf = c]
  OBVIOUS
<1> HIDE DEF c
<1>6. out' \in OutType /\ out'.day = out.day /\ out'.bad = out.bad /\ out'.buf = c
  BY <1>2, <1>4, <1>5 DEF OutType
<1> HIDE DEF h, b
<1>7. AuditTypes'
  BY <1>1, <1>6 DEF AuditInv, AuditTypes
<1>8. h \notin ToSet(log[out.day].lines)
  BY <1>1, <1>2, <1>3 DEF AuditInv, Disk
<1>9. Memory'
  <2>1. \A x \in ToSet(c) : step'[x] = "taken" /\ DayOf(stamp'[x]) = out.day
    BY <1>1, <1>2, <1>3, <1>4
  <2>2. ToSet(log[out.day].lines) \cap ToSet(c) = {}
    BY <1>3, <1>4, <1>8
  <2> QED
    BY <1>1, <1>2, <1>3, <1>4, <1>6, <2>1, <2>2 DEF Memory
<1>10. Disk'
  <2> SUFFICES ASSUME NEW d \in Days, log[d] # Never
               PROVE  /\ IsInjective(log[d].lines)
                      /\ \A e \in ToSet(log[d].lines) : step'[e] = "taken" /\ DayOf(stamp[e]) = d
                      /\ log[d].part # Never => step'[log[d].part] = "taken"
    BY DEF Disk
  <2>1. log[d].lines \in Seq(Event) /\ log[d].part \in Event \cup {Never}
    BY <1>2 DEF LogType, FileType
  <2>2. ToSet(log[d].lines) \subseteq Event
    BY <2>1, ElementsAre
  <2> QED
    BY <1>1, <2>1, <2>2 DEF AuditInv, Disk
<1>11. Balanced
  <2>1. Torn' \subseteq Torn
    <3>1. ASSUME NEW e \in Torn' PROVE e \in Torn
      <4>1. /\ e \in Event /\ step'[e] = "taken" /\ e \notin doomed /\ e \notin ToSet(c)
            /\ e \notin Readable
        BY <1>6, <3>1 DEF Torn, Readable, ReadableIn, InBuffer, ToSet
      <4>2. step[e] = "taken" /\ e \notin ToSet(b)
        BY <1>1, <1>4, <4>1
      <4> QED
        BY <4>1, <4>2 DEF Torn, InBuffer, ToSet, b
    <3> QED
      BY <3>1
  <2>2. LooseDays' \subseteq LooseDays
    <3>1. ASSUME NEW d \in Days, Loose(d)' PROVE Loose(d)
      <4>1. log[d] # Never /\ log[d].part # Never
        BY <3>1 DEF Loose
      <4>2. out.day = d /\ ~out.bad => Head(c) # log[d].part
        BY <1>4, <1>6, <3>1 DEF Loose
      <4> QED
        BY <1>4, <4>1, <4>2 DEF Loose, b
    <3> QED
      BY <3>1 DEF LooseDays
  <2>3. faults' >= faults
    BY DEF AuditInv, AuditTypes
  <2> QED
    BY <2>1, <2>2, <2>3 DEF Balanced
<1>12. Spoils'
  <2>1. faults \in Nat /\ faults' \in Nat /\ Spoils
    BY DEF AuditInv, AuditTypes
  <2> QED
    BY <1>11, <2>1, BalancedSpoils
<1> QED
  BY <1>7, <1>9, <1>10, <1>12 DEF AuditInv

\* A file that is there is there after a flush.
LEMMA FlushedThere ==
    ASSUME AuditInv, NEW r, FlushDone(r), NEW d \in Days, log[d] # Never
    PROVE  r.log[d] # Never
<1>1. CASE d = out.day /\ out.buf # <<>>
  BY <1>1, NeverIsNothing DEF FlushDone
<1>2. CASE ~(d = out.day /\ out.buf # <<>>)
  BY <1>2 DEF FlushDone
<1> QED
  BY <1>1, <1>2

\* After a flush without a new file: the buffer is empty.
LEMMA FlushedKeeps ==
    ASSUME AuditInv, NEW r, FlushDone(r), log' = r.log, stamp' = stamp,
           out' \in OutType, out'.buf = <<>>, out'.day \in {out.day, Never},
           doomed \cup r.lost \subseteq doomed', doomed' \subseteq Event,
           faults' >= faults + Cost(r), faults' \in 0 .. MaxFaults,
           clock' = clock, phase' \in {"up", "closing", "closed"},
           step' \in [Event -> {"new", "stamped", "queued", "taken", "dropped"}],
           \A e \in Event : step[e] = "taken" => step'[e] = "taken",
           \A e \in Event : step'[e] = "taken" => step[e] = "taken" \/ e \in doomed',
           queue' \in Seq(Event), Len(queue') <= QueueSize, IsInjective(queue'),
           \A e \in Event : step'[e] = "queued" <=> e \in ToSet(queue'),
           phase' = "closed" => queue' = <<>>
    PROVE  AuditInv'
<1>1. log' \in LogType /\ FlushedLog(r) /\ faults' \in Nat
  BY AuditAssumption DEF FlushDone, FlushedLog
<1>2. AuditTypes'
  BY <1>1 DEF AuditInv, AuditTypes
<1>3. ToSet(<<>>) = {} /\ IsInjective(<<>>)
  BY DEF ToSet, IsInjective
<1>4. ASSUME out'.day # Never PROVE log'[out'.day] # Never
  <2>1. out'.day \in Days /\ out'.day = out.day /\ log[out.day] # Never
    BY <1>4 DEF OutType, AuditInv, Memory
  <2> QED
    BY <2>1, FlushedThere
<1>5. Memory'
  BY <1>3, <1>4 DEF Memory
<1>6. Disk'
  BY <1>1, FlushDisk
<1>7. Balanced
  BY <1>1, FlushBalance
<1>8. Spoils'
  <2>1. faults \in Nat /\ Spoils
    BY DEF AuditInv, AuditTypes
  <2> QED
    BY <1>1, <1>7, <2>1, BalancedSpoils
<1> QED
  BY <1>2, <1>5, <1>6, <1>8 DEF AuditInv

LEMMA FlushTickKeeps == ASSUME AuditInv, FlushTick PROVE AuditInv'
<1>1. PICK r \in Flushes : out' = [out EXCEPT !.bad = r.bad, !.buf = <<>>] /\ FlushTo(r)
  BY DEF FlushTick
<1>2. /\ log' = r.log /\ faults' = faults + Cost(r) /\ doomed' = doomed \cup r.lost
      /\ UNCHANGED <<clock, stamp, step, queue, phase>>
  BY <1>1 DEF FlushTick, FlushTo
<1>3. FlushDone(r)
  BY FlushIs
<1>4. out' \in OutType /\ out'.buf = <<>> /\ out'.day = out.day
  <2> DEFINE bad == r.bad
  <2>1. out \in OutType /\ bad \in BOOLEAN /\ <<>> \in Seq(Event)
    BY <1>3, EmptySeq DEF AuditInv, AuditTypes, FlushDone
  <2>2. out' = [out EXCEPT !.bad = bad, !.buf = <<>>]
    BY <1>1
  <2> HIDE DEF bad
  <2> QED
    BY <2>1, <2>2 DEF OutType
<1>5. faults' \in 0 .. MaxFaults /\ faults' >= faults + Cost(r) /\ doomed' \subseteq Event
  <2>1. faults + Cost(r) \in 0 .. MaxFaults /\ Cost(r) \in {0, 1}
    BY <1>3, CostIs
  <2>2. doomed \subseteq Event /\ r.lost \subseteq Event /\ faults \in 0 .. MaxFaults
    BY <1>3 DEF AuditInv, AuditTypes, FlushDone
  <2> QED
    BY <1>2, <2>1, <2>2, AuditAssumption
<1>6. /\ phase' \in {"up", "closing", "closed"}
      /\ step' \in [Event -> {"new", "stamped", "queued", "taken", "dropped"}]
      /\ queue' \in Seq(Event) /\ Len(queue') <= QueueSize /\ IsInjective(queue')
      /\ \A e \in Event : step'[e] = "queued" <=> e \in ToSet(queue')
      /\ phase' = "closed" => queue' = <<>>
  BY <1>2 DEF AuditInv, AuditTypes, Memory
<1> QED
  BY <1>2, <1>3, <1>4, <1>5, <1>6, FlushedKeeps

LEMMA FinishKeeps == ASSUME AuditInv, Finish PROVE AuditInv'
<1>1. PICK r \in Flushes : FlushTo(r)
  BY DEF Finish
<1>2. /\ log' = r.log /\ faults' = faults + Cost(r) /\ doomed' = doomed \cup r.lost
      /\ UNCHANGED <<clock, stamp, step, queue>> /\ phase' = "closed" /\ queue = <<>>
      /\ out' = NoOut
  BY <1>1 DEF Finish, FlushTo
<1>3. FlushDone(r)
  BY FlushIs
<1>4. out' \in OutType /\ out'.buf = <<>> /\ out'.day = Never
  BY <1>2 DEF NoOut, OutType
<1>5. faults' \in 0 .. MaxFaults /\ faults' >= faults + Cost(r) /\ doomed' \subseteq Event
  <2>1. faults + Cost(r) \in 0 .. MaxFaults /\ Cost(r) \in {0, 1}
    BY <1>3, CostIs
  <2>2. doomed \subseteq Event /\ r.lost \subseteq Event /\ faults \in 0 .. MaxFaults
    BY <1>3 DEF AuditInv, AuditTypes, FlushDone
  <2> QED
    BY <1>2, <2>1, <2>2, AuditAssumption
<1>6. /\ phase' \in {"up", "closing", "closed"}
      /\ step' \in [Event -> {"new", "stamped", "queued", "taken", "dropped"}]
      /\ queue' \in Seq(Event) /\ Len(queue') <= QueueSize /\ IsInjective(queue')
      /\ \A e \in Event : step'[e] = "queued" <=> e \in ToSet(queue')
      /\ phase' = "closed" => queue' = <<>>
  BY <1>2 DEF AuditInv, AuditTypes, Memory
<1> QED
  BY <1>2, <1>3, <1>4, <1>5, <1>6, FlushedKeeps

LEMMA TakeOpenKeeps ==
    ASSUME AuditInv, queue # <<>>, out.day # DayOf(stamp[Head(queue)]),
           NEW line \in Lines, Open(DayOf(stamp[Head(queue)]), line),
           step' = [step EXCEPT ![Head(queue)] = "taken"], queue' = Tail(queue),
           UNCHANGED <<clock, stamp, phase>>
    PROVE  AuditInv'
<1> DEFINE h == Head(queue)
           d == DayOf(stamp[h])
<1>1. /\ h \in Event /\ step[h] = "queued" /\ d \in Days /\ phase # "closed"
      /\ step' \in [Event -> {"new", "stamped", "queued", "taken", "dropped"}]
      /\ \A x \in Event : step'[x] = IF x = h THEN "taken" ELSE step[x]
      /\ queue' \in Seq(Event) /\ Len(queue') <= QueueSize /\ IsInjective(queue')
      /\ \A x \in Event : step'[x] = "queued" <=> x \in ToSet(queue')
  BY HeadIsTaken
<1>2. PICK r \in Flushes :
       \/ /\ out' = [day |-> d, bad |-> FALSE, buf |-> line]
          /\ log' = IF log[d] = Never THEN [r.log EXCEPT ![d] = NoLines] ELSE r.log
          /\ faults' = faults + Cost(r)
          /\ doomed' = doomed \cup r.lost \cup ({h} \ ToSet(line))
       \/ /\ faults + Cost(r) < MaxFaults
          /\ out' = IF out.day = Never THEN out ELSE [out EXCEPT !.bad = TRUE, !.buf = <<>>]
          /\ log' = r.log
          /\ faults' = faults + Cost(r) + 1
          /\ doomed' = doomed \cup r.lost \cup {h}
  BY DEF Open, Unencoded
<1>line. line \in {<<h>>, <<>>}
  BY DEF Lines
<1>3. FlushDone(r)
  BY FlushIs
<1>4. out.day # d /\ out \in OutType
  BY DEF AuditInv, AuditTypes
<1>5. /\ faults + Cost(r) \in 0 .. MaxFaults /\ Cost(r) \in {0, 1} /\ r.lost \subseteq Event
      /\ doomed \subseteq Event /\ faults \in Nat /\ MaxFaults \in Nat
  <2>1. faults + Cost(r) \in 0 .. MaxFaults /\ Cost(r) \in {0, 1}
    BY <1>3, CostIs
  <2>2. r.lost \subseteq Event /\ doomed \subseteq Event /\ faults \in 0 .. MaxFaults
    BY <1>3 DEF AuditInv, AuditTypes, FlushDone
  <2> QED
    BY <2>1, <2>2, AuditAssumption
<1>6. stamp \in [Event -> 0 .. MaxTime] /\ stamp' = stamp /\ d = DayOf(stamp[h])
  BY DEF AuditInv, AuditTypes
<1> HIDE DEF h, d
<1>7. \A e \in Event : step[e] = "taken" => step'[e] = "taken"
  BY <1>1
<1>8. ASSUME /\ out' = [day |-> d, bad |-> FALSE, buf |-> line]
             /\ log' = IF log[d] = Never THEN [r.log EXCEPT ![d] = NoLines] ELSE r.log
             /\ faults' = faults + Cost(r)
             /\ doomed' = doomed \cup r.lost \cup ({h} \ ToSet(line))
      PROVE  AuditInv'
  <2>1. /\ line \in Seq(Event) /\ ToSet(line) \subseteq {h} /\ IsInjective(line)
        /\ line = <<>> \/ (line # <<>> /\ Head(line) = h)
    <3>1. CASE line = <<h>>
      BY <1>1, <3>1 DEF ToSet, IsInjective
    <3>2. CASE line = <<>>
      BY <3>2, EmptySeq DEF ToSet, IsInjective
    <3> QED
      BY <1>line, <3>1, <3>2
  <2>2. out' \in OutType /\ out'.day = d /\ out'.buf = line
    BY <1>1, <1>8, <2>1 DEF OutType
  <2>3. NoLines \in FileType /\ ToSet(NoLines.lines) = {}
    BY DEF NoLines, FileType, ToSet
  <2>4. r.log \in LogType
    BY <1>3 DEF FlushDone
  <2>5. log' \in LogType
    BY <1>1, <1>8, <2>3, <2>4 DEF LogType
  <2>6. FlushedLog(r)
    BY <1>1, <1>8, <2>4 DEF LogType, FlushedLog
  <2>7. log'[d] # Never /\ h \notin ToSet(log'[d].lines)
    <3>1. CASE log[d] = Never
      <4>1. log'[d] = NoLines
        BY <1>1, <1>8, <2>4, <3>1 DEF LogType
      <4> QED
        BY <2>3, <4>1, NeverIsNothing
    <3>2. CASE log[d] # Never
      <4>1. log'[d] = log[d]
        BY <1>1, <1>3, <1>4, <1>8, <3>2 DEF FlushDone
      <4> QED
        BY <1>1, <3>2, <4>1 DEF AuditInv, Disk
    <3> QED
      BY <3>1, <3>2
  <2>8. faults' \in 0 .. MaxFaults /\ faults' \in Nat /\ faults' >= faults + Cost(r)
    BY <1>5, <1>8
  <2>9. AuditTypes'
    BY <1>1, <1>5, <1>8, <2>2, <2>5, <2>8 DEF AuditInv, AuditTypes
  <2>10. Memory'
    <3>1. \A e \in ToSet(line) : step'[e] = "taken" /\ DayOf(stamp'[e]) = d
      BY <1>1, <1>6, <2>1
    <3>2. ToSet(log'[d].lines) \cap ToSet(line) = {}
      BY <2>1, <2>7
    <3>3. d # Never
      BY <1>1, DaysAreFew, NeverIsNothing
    <3> QED
      BY <1>1, <2>1, <2>2, <2>7, <3>1, <3>2, <3>3 DEF Memory
  <2>11. Disk'
    BY <1>3, <1>7, <2>6, FlushDisk
  <2>12. Balanced
    <3>1. \A e \in Event : step'[e] = "taken" =>
              step[e] = "taken" \/ e \in doomed' \/ e \in ToSet(out'.buf)
      BY <1>1, <1>8, <2>2
    <3>2. \/ out'.buf = <<>>
          \/ /\ out'.day # out.day /\ out'.buf # <<>> /\ Head(out'.buf) \in Event
             /\ step[Head(out'.buf)] # "taken"
      BY <1>1, <1>4, <2>1, <2>2
    <3>3. doomed \cup r.lost \subseteq doomed'
      BY <1>8
    <3> QED
      BY <1>3, <2>5, <2>6, <2>8, <3>1, <3>2, <3>3, FlushBalance
  <2>13. Spoils'
    <3>1. Spoils
      BY DEF AuditInv
    <3> QED
      BY <1>5, <2>8, <2>12, <3>1, BalancedSpoils
  <2> QED
    BY <2>9, <2>10, <2>11, <2>13 DEF AuditInv
<1>9. ASSUME /\ faults + Cost(r) < MaxFaults
             /\ out' = IF out.day = Never THEN out ELSE [out EXCEPT !.bad = TRUE, !.buf = <<>>]
             /\ log' = r.log
             /\ faults' = faults + Cost(r) + 1
             /\ doomed' = doomed \cup r.lost \cup {h}
      PROVE  AuditInv'
  <2>1. out' \in OutType /\ out'.buf = <<>> /\ out'.day = out.day
    <3>1. CASE out.day = Never
      <4>1. out.buf = <<>>
        BY <3>1 DEF AuditInv, Memory
      <4> QED
        BY <1>4, <1>9, <3>1, <4>1
    <3>2. CASE out.day # Never
      <4>1. out' = [out EXCEPT !.bad = TRUE, !.buf = <<>>] /\ <<>> \in Seq(Event)
        BY <1>9, <3>2, EmptySeq
      <4> QED
        BY <1>4, <4>1 DEF OutType
    <3> QED
      BY <3>1, <3>2
  <2>2. faults' \in 0 .. MaxFaults /\ faults' >= faults + Cost(r)
    BY <1>5, <1>9
  <2>3. doomed \cup r.lost \subseteq doomed' /\ doomed' \subseteq Event
    BY <1>1, <1>5, <1>9
  <2>4. \A e \in Event : step'[e] = "taken" => step[e] = "taken" \/ e \in doomed'
    BY <1>1, <1>9
  <2>5. /\ clock' = clock /\ phase' \in {"up", "closing", "closed"} /\ phase' # "closed"
        /\ log' = r.log
    BY <1>1, <1>9 DEF AuditInv, AuditTypes
  <2> QED
    BY <1>1, <1>3, <1>6, <1>7, <2>1, <2>2, <2>3, <2>4, <2>5, FlushedKeeps
<1> QED
  BY <1>2, <1>8, <1>9

\* The next event makes no line in a file that is open.
LEMMA TakeNothingKeeps ==
    ASSUME AuditInv, queue # <<>>, doomed' = doomed \cup {Head(queue)},
           step' = [step EXCEPT ![Head(queue)] = "taken"], queue' = Tail(queue),
           UNCHANGED <<clock, stamp, phase, log, faults, out>>
    PROVE  AuditInv'
<1> DEFINE h == Head(queue)
<1>1. /\ h \in Event /\ phase # "closed"
      /\ step' \in [Event -> {"new", "stamped", "queued", "taken", "dropped"}]
      /\ \A x \in Event : step'[x] = IF x = h THEN "taken" ELSE step[x]
      /\ queue' \in Seq(Event) /\ Len(queue') <= QueueSize /\ IsInjective(queue')
      /\ \A x \in Event : step'[x] = "queued" <=> x \in ToSet(queue')
  BY HeadIsTaken
<1>2. doomed' = doomed \cup {h}
  OBVIOUS
<1> HIDE DEF h
<1>3. ToSet(out.buf) \subseteq Event
  BY ElementsAre DEF AuditInv, AuditTypes, OutType
<1>4. AuditTypes'
  BY <1>1, <1>2 DEF AuditInv, AuditTypes
<1>5. Memory'
  <2>1. \A x \in ToSet(out.buf) : step'[x] = "taken" /\ DayOf(stamp'[x]) = out.day
    BY <1>1, <1>3 DEF AuditInv, Memory
  <2> QED
    BY <1>1, <2>1 DEF AuditInv, Memory
<1>6. Disk'
  <2> SUFFICES ASSUME NEW d \in Days, log[d] # Never
               PROVE  /\ IsInjective(log[d].lines)
                      /\ \A e \in ToSet(log[d].lines) : step'[e] = "taken" /\ DayOf(stamp[e]) = d
                      /\ log[d].part # Never => step'[log[d].part] = "taken"
    BY DEF Disk
  <2>1. log[d].lines \in Seq(Event) /\ log[d].part \in Event \cup {Never}
    BY DEF AuditInv, AuditTypes, LogType, FileType
  <2>2. ToSet(log[d].lines) \subseteq Event
    BY <2>1, ElementsAre
  <2> QED
    BY <1>1, <2>1, <2>2 DEF AuditInv, Disk
<1>7. Balanced
  <2>1. Torn' \subseteq Torn
    BY <1>1, <1>2 DEF Torn, Readable, ReadableIn, InBuffer
  <2>2. LooseDays' = LooseDays
    BY DEF LooseDays, Loose
  <2> QED
    BY <2>1, <2>2 DEF Balanced, AuditInv, AuditTypes
<1>8. Spoils'
  <2>1. faults \in Nat /\ faults' \in Nat /\ Spoils
    BY DEF AuditInv, AuditTypes
  <2> QED
    BY <1>7, <2>1, BalancedSpoils
<1> QED
  BY <1>4, <1>5, <1>6, <1>8 DEF AuditInv

LEMMA TakeKeeps == ASSUME AuditInv, Take PROVE AuditInv'
<1> DEFINE h == Head(queue)
           b == out.buf
<1>1. /\ queue # <<>> /\ UNCHANGED <<clock, stamp, phase>>
      /\ step' = [step EXCEPT ![h] = "taken"] /\ queue' = Tail(queue)
  BY DEF Take
<1>2. PICK line \in Lines :
         \/ /\ out.day = DayOf(stamp[h])
            /\ out' = [out EXCEPT !.buf = @ \o line]
            /\ doomed' = doomed \cup Unencoded(line)
            /\ UNCHANGED <<log, faults>>
         \/ out.day # DayOf(stamp[h]) /\ Open(DayOf(stamp[h]), line)
  BY DEF Take
<1>3. h \in Event /\ out \in OutType /\ b \in Seq(Event)
  BY <1>1, HeadIsTaken DEF AuditInv, AuditTypes, OutType
<1>4. line = <<h>> \/ line = <<>>
  BY DEF Lines
<1>5. CASE out.day # DayOf(stamp[h])
  BY <1>1, <1>2, <1>5, TakeOpenKeeps
<1>6. CASE out.day = DayOf(stamp[h]) /\ line = <<h>>
  <2>1. b \o <<h>> = Append(b, h)
    <3> HIDE DEF b, h
    <3> QED
      BY <1>3
  <2>2. ToSet(line) = {h}
    BY <1>6 DEF ToSet
  <2>3. out' = [out EXCEPT !.buf = Append(b, h)] /\ UNCHANGED <<log, faults, doomed>>
    BY <1>2, <1>6, <2>1, <2>2 DEF Unencoded
  <2> QED
    BY <1>1, <1>6, <2>3, TakeSameDayKeeps
<1>7. CASE out.day = DayOf(stamp[h]) /\ line = <<>>
  <2>1. b \o <<>> = b
    <3> HIDE DEF b
    <3> QED
      BY <1>3
  <2>2. ToSet(line) = {}
    BY <1>7 DEF ToSet
  <2>3. out' = [out EXCEPT !.buf = b] /\ UNCHANGED <<log, faults>> /\ doomed' = doomed \cup {h}
    BY <1>2, <1>7, <2>1, <2>2 DEF Unencoded
  <2>4. UNCHANGED out
    BY <1>3, <2>3 DEF OutType
  <2> QED
    BY <1>1, <2>3, <2>4, TakeNothingKeeps
<1> QED
  BY <1>4, <1>5, <1>6, <1>7

LEMMA BufferFullKeeps == ASSUME AuditInv, BufferFull PROVE AuditInv'
<1> DEFINE b == out.buf
           f == log[out.day]
           s == Front(b)
           e == Last(b)
           h == With(f, s)
           g == WithPart(f, s, e)
<1>1. /\ b # <<>> /\ ~out.bad /\ log' = [log EXCEPT ![out.day] = g]
      /\ out' = [out EXCEPT !.buf = <<e>>]
      /\ UNCHANGED <<clock, stamp, step, queue, phase, faults, doomed>>
  BY DEF BufferFull
<1>2. /\ out.day \in Days /\ f \in FileType /\ f # Never /\ b \in Seq(Event)
      /\ IsInjective(f.lines) /\ IsInjective(b) /\ ToSet(f.lines) \cap ToSet(b) = {}
      /\ ToSet(b) \subseteq Event
  BY <1>1, CurrentFile, ElementsAre
<1>3. /\ s \in Seq(Event) /\ e \in Event /\ ToSet(b) = ToSet(s) \cup {e}
      /\ IsInjective(s) /\ e \notin ToSet(s)
      /\ s # <<>> => Head(s) = Head(b)
      /\ s = <<>> => e = Head(b)
  <2> HIDE DEF b
  <2> QED
    BY <1>1, <1>2, FrontLastElements
<1>4. out \in OutType /\ log \in LogType /\ out.day # Never
  BY <1>2, DaysAreFew, NeverIsNothing DEF AuditInv, AuditTypes
<1>5. out.buf = b /\ log[out.day] = f
  OBVIOUS
<1> HIDE DEF b, f, s, e
<1>6. /\ h \in FileType /\ ToSet(f.lines) \subseteq ToSet(h.lines)
      /\ ToSet(h.lines) \subseteq ToSet(f.lines) \cup ToSet(s)
      /\ IsInjective(h.lines)
      /\ s = <<>> => h = f
      /\ s # <<>> => h.part = Never
      /\ \A x \in ToSet(s) : \/ x \in ToSet(h.lines)
                             \/ x = Head(s) /\ f.part # Never /\ f.part # x
  <2>1. ToSet(f.lines) \cap ToSet(s) = {}
    BY <1>2, <1>3
  <2> QED
    BY <1>2, <1>3, <2>1, WithIs
<1>7. /\ g \in FileType /\ g.lines = h.lines
      /\ g.part = IF h.part = Never THEN e ELSE h.part
  BY <1>2, <1>3, WithPartIs
<1> HIDE DEF g, h
<1>8. /\ <<e>> \in Seq(Event) /\ ToSet(<<e>>) = {e} /\ IsInjective(<<e>>) /\ <<e>> # <<>>
      /\ Head(<<e>>) = e
  BY <1>3 DEF ToSet, IsInjective
<1>9. out' \in OutType /\ out'.day = out.day /\ out'.bad = out.bad /\ out'.buf = <<e>>
  BY <1>1, <1>4, <1>8 DEF OutType
<1>10. /\ log' \in LogType /\ log'[out.day] = g
       /\ \A d \in Days : d # out.day => log'[d] = log[d]
  BY <1>1, <1>2, <1>4, <1>7 DEF LogType
<1>11. AuditTypes'
  BY <1>1, <1>9, <1>10 DEF AuditInv, AuditTypes
<1>12. e \notin ToSet(g.lines) /\ g # Never
  BY <1>2, <1>3, <1>6, <1>7, NeverIsNothing
<1>13. \A x \in ToSet(b) : step[x] = "taken" /\ DayOf(stamp[x]) = out.day
  BY <1>5 DEF AuditInv, Memory
<1>14. Memory'
  <2>1. \A x \in ToSet(<<e>>) : step'[x] = "taken" /\ DayOf(stamp'[x]) = out.day
    BY <1>1, <1>3, <1>8, <1>13
  <2>2. ToSet(log'[out.day].lines) \cap ToSet(<<e>>) = {}
    BY <1>8, <1>10, <1>12
  <2>3. phase # "closed"
    BY <1>1, <1>5 DEF AuditInv, Memory
  <2> QED
    BY <1>1, <1>4, <1>8, <1>9, <1>10, <1>12, <2>1, <2>2, <2>3 DEF AuditInv, Memory
<1>15. Disk'
  <2>1. ASSUME NEW d \in Days, log'[d] # Never, d # out.day
        PROVE  /\ IsInjective(log'[d].lines)
               /\ \A x \in ToSet(log'[d].lines) : step'[x] = "taken" /\ DayOf(stamp'[x]) = d
               /\ log'[d].part # Never => step'[log'[d].part] = "taken"
    BY <1>1, <1>10, <2>1 DEF AuditInv, Disk
  <2>2. /\ IsInjective(g.lines)
        /\ \A x \in ToSet(g.lines) : step[x] = "taken" /\ DayOf(stamp[x]) = out.day
        /\ g.part # Never => step[g.part] = "taken"
    <3>1. /\ \A x \in ToSet(f.lines) : step[x] = "taken" /\ DayOf(stamp[x]) = out.day
          /\ f.part # Never => step[f.part] = "taken"
      BY <1>2, <1>5 DEF AuditInv, Disk
    <3> QED
      BY <1>3, <1>6, <1>7, <1>13, <3>1
  <2> QED
    BY <1>1, <1>10, <2>1, <2>2 DEF Disk
<1>16. Balanced
  <2> DEFINE spoilt == s # <<>> /\ f.part # Never /\ f.part # Head(s)
  <2>1. ASSUME NEW x \in Torn' PROVE x \in Torn \/ (spoilt /\ x = Head(s))
    <3>1. /\ x \in Event /\ step[x] = "taken" /\ x \notin doomed /\ x # e
          /\ \A d \in Days : log'[d] # Never => x \notin ToSet(log'[d].lines)
      BY <1>1, <1>8, <1>9, <2>1 DEF Torn, Readable, ReadableIn, InBuffer, ToSet
    <3>2. x \notin ToSet(g.lines)
      BY <1>2, <1>10, <1>12, <3>1
    <3>3. \A d \in Days : log[d] # Never => x \notin ToSet(log[d].lines)
      BY <1>5, <1>6, <1>7, <1>10, <3>1, <3>2
    <3>4. x \in Torn \/ x \in ToSet(b)
      BY <3>1, <3>3 DEF Torn, Readable, ReadableIn, InBuffer, ToSet, b
    <3>5. x \in ToSet(b) => spoilt /\ x = Head(s)
      <4>1. ASSUME x \in ToSet(b) PROVE x \in ToSet(s)
        BY <1>3, <3>1, <4>1
      <4>2. x \in ToSet(s) => s # <<>>
        BY DEF ToSet
      <4> QED
        BY <1>6, <1>7, <3>2, <4>1, <4>2
    <3> QED
      BY <3>4, <3>5
  <2>2. ASSUME NEW d \in Days, Loose(d)', d # out.day PROVE Loose(d)
    BY <1>10, <2>2 DEF Loose
  <2>3. ASSUME NEW d \in Days, d = out.day, s # <<>> PROVE ~Loose(d)'
    BY <1>1, <1>6, <1>7, <1>8, <1>9, <1>10, <2>3 DEF Loose
  <2>4. ASSUME NEW d \in Days, d = out.day, s = <<>>, Loose(d)' PROVE Loose(d)
    <3>1. h = f /\ e = Head(b) /\ log'[d] = g /\ g.part # Never
      BY <1>3, <1>6, <1>10, <2>4 DEF Loose
    <3>2. g.part # e
      BY <1>1, <1>8, <1>9, <2>4, <3>1 DEF Loose
    <3>3. f.part = g.part
      BY <1>7, <3>1, <3>2
    <3> QED
      BY <1>2, <1>5, <2>4, <3>1, <3>2, <3>3 DEF Loose
  <2>5. faults' >= faults
    BY <1>1 DEF AuditInv, AuditTypes
  <2>6. CASE spoilt
    <3>1. Head(s) \in Event
      BY <1>3, <2>6, HeadTailElements
    <3>2. ASSUME NEW d \in Days, d = out.day PROVE Loose(d)
      BY <1>2, <1>3, <1>5, <2>6, <3>2 DEF Loose
    <3>3. LooseDays' \subseteq LooseDays \ {out.day} /\ out.day \in LooseDays
      <4>1. \A d \in Days : Loose(d)' => Loose(d) /\ d # out.day
        BY <2>2, <2>3, <2>6
      <4> QED
        BY <1>2, <3>2, <4>1 DEF LooseDays
    <3>4. Torn' \subseteq Torn \cup {Head(s)}
      BY <2>1
    <3> QED
      BY <2>5, <3>1, <3>3, <3>4 DEF Balanced
  <2>7. CASE ~spoilt
    <3>1. Torn' \subseteq Torn
      BY <2>1, <2>7
    <3>2. LooseDays' \subseteq LooseDays
      <4>1. \A d \in Days : Loose(d)' => Loose(d)
        BY <2>2, <2>3, <2>4
      <4> QED
        BY <4>1 DEF LooseDays
    <3> QED
      BY <2>5, <3>1, <3>2 DEF Balanced
  <2> QED
    BY <2>6, <2>7
<1>17. Spoils'
  <2>1. faults \in Nat /\ faults' \in Nat /\ Spoils
    BY <1>1, AuditAssumption DEF AuditInv, AuditTypes
  <2> QED
    BY <1>16, <2>1, BalancedSpoils
<1> QED
  BY <1>11, <1>14, <1>15, <1>17 DEF AuditInv

LEMMA CrashKeeps == ASSUME AuditInv, Crash PROVE AuditInv'
<1>1. /\ faults < MaxFaults /\ queue' = <<>> /\ out' = NoOut /\ phase' = "up"
      /\ step' = [e \in Event |-> CASE step[e] = "stamped" -> "dropped"
                                    [] step[e] = "queued" -> "taken"
                                    [] OTHER -> step[e]]
      /\ faults' = faults + 1
      /\ doomed' = doomed \cup ToSet(queue) \cup ToSet(out.buf)
      /\ UNCHANGED <<clock, stamp, log>>
  BY DEF Crash
<1>2. /\ queue \in Seq(Event) /\ out \in OutType /\ out.buf \in Seq(Event) /\ log \in LogType
      /\ step \in [Event -> {"new", "stamped", "queued", "taken", "dropped"}]
      /\ faults \in 0 .. MaxFaults /\ MaxFaults \in Nat /\ doomed \subseteq Event
      /\ \A e \in Event : step[e] = "queued" <=> e \in ToSet(queue)
      /\ out.day \in Days \cup {Never}
  BY AuditAssumption DEF AuditInv, AuditTypes, Memory, OutType
<1>3. ToSet(queue) \subseteq Event /\ ToSet(out.buf) \subseteq Event
  BY <1>2, ElementsAre
<1>4. /\ step' \in [Event -> {"new", "stamped", "queued", "taken", "dropped"}]
      /\ \A e \in Event : /\ step'[e] = "taken" <=> step[e] \in {"taken", "queued"}
                          /\ step'[e] # "queued"
  BY <1>1, <1>2
<1>5. /\ out' \in OutType /\ out'.day = Never /\ out'.buf = <<>> /\ ToSet(<<>>) = {}
      /\ IsInjective(<<>>) /\ Len(<<>>) = 0 /\ <<>> \in Seq(Event)
  BY <1>1, EmptySeq DEF NoOut, OutType, ToSet, IsInjective
<1>6. AuditTypes'
  <2>1. Len(queue') <= QueueSize
    BY <1>1, <1>5, AuditAssumption
  <2>2. faults' \in 0 .. MaxFaults
    BY <1>1, <1>2
  <2>3. doomed' \subseteq Event
    BY <1>1, <1>2, <1>3
  <2> QED
    BY <1>1, <1>4, <1>5, <2>1, <2>2, <2>3 DEF AuditInv, AuditTypes
<1>7. Memory'
  BY <1>1, <1>4, <1>5 DEF Memory
<1>8. Disk'
  <2> SUFFICES ASSUME NEW d \in Days, log[d] # Never
               PROVE  /\ IsInjective(log[d].lines)
                      /\ \A e \in ToSet(log[d].lines) : step'[e] = "taken" /\ DayOf(stamp[e]) = d
                      /\ log[d].part # Never => step'[log[d].part] = "taken"
    BY <1>1 DEF Disk
  <2>1. log[d].lines \in Seq(Event) /\ log[d].part \in Event \cup {Never}
    BY <1>2 DEF LogType, FileType
  <2>2. ToSet(log[d].lines) \subseteq Event
    BY <2>1, ElementsAre
  <2> QED
    BY <1>4, <2>1, <2>2 DEF AuditInv, Disk
<1>9. Balanced
  <2>1. ASSUME NEW e \in Torn' PROVE e \in Torn
    <3>1. e \in Event /\ step'[e] = "taken" /\ e \notin doomed' /\ e \notin Readable
      BY <1>1, <2>1 DEF Torn, Readable, ReadableIn
    <3>2. step[e] = "taken" /\ e \notin doomed /\ e \notin ToSet(out.buf)
      BY <1>1, <1>2, <1>4, <3>1
    <3> QED
      BY <3>1, <3>2 DEF Torn, InBuffer, ToSet
  <2>2. ASSUME NEW d \in Days, Loose(d)', d # out.day PROVE Loose(d)
    BY <1>1, <2>2 DEF Loose
  <2>3. PICK d \in Days : out.day \in Days => d = out.day
    <3>1. 0 \in 0 .. MaxTime
      BY AuditAssumption
    <3> QED
      BY <3>1, DaysGoUp
  <2>4. LooseDays' \subseteq LooseDays \cup {d}
    <3>1. \A x \in Days : Loose(x)' => Loose(x) \/ x = d
      BY <2>2, <2>3
    <3> QED
      BY <3>1 DEF LooseDays
  <2>5. faults' >= faults + 1 /\ Torn' \subseteq Torn
    BY <1>1, <1>2, <2>1
  <2> QED
    BY <2>4, <2>5 DEF Balanced
<1>10. Spoils'
  <2>1. faults \in Nat /\ faults' \in Nat /\ Spoils
    BY <1>1, <1>2 DEF AuditInv
  <2> QED
    BY <1>9, <2>1, BalancedSpoils
<1> QED
  BY <1>6, <1>7, <1>8, <1>10 DEF AuditInv

LEMMA AuditKeeps == AuditInv /\ [AuditNext]_avars => AuditInv'
<1> SUFFICES ASSUME AuditInv, [AuditNext]_avars PROVE AuditInv'
  OBVIOUS
<1>1. CASE Time \/ Close
  BY <1>1, TimeOrCloseKeeps
<1>2. CASE Crash
  BY <1>2, CrashKeeps
<1>3. ASSUME NEW e \in Event, Stamp(e) \/ Send(e) PROVE AuditInv'
  BY <1>3, StampKeeps, SendKeeps
<1>4. CASE Take
  BY <1>4, TakeKeeps
<1>5. CASE FlushTick
  BY <1>5, FlushTickKeeps
<1>6. CASE BufferFull
  BY <1>6, BufferFullKeeps
<1>7. CASE Finish
  BY <1>7, FinishKeeps
<1>8. CASE UNCHANGED avars
  <2>1. /\ UNCHANGED <<clock, stamp, step, queue, out, log, phase, faults, doomed>>
    BY <1>8 DEF avars
  <2>2. Disk' /\ Spoils'
    BY <2>1, QuietKeeps
  <2>3. AuditTypes' /\ Memory'
    BY <2>1 DEF AuditInv, AuditTypes, Memory
  <2> QED
    BY <2>2, <2>3 DEF AuditInv
<1> QED
  BY <1>1, <1>2, <1>3, <1>4, <1>5, <1>6, <1>7, <1>8 DEF AuditNext

-----------------------------------------------------------------------------
(* What the invariant says of the files and of Recent. *)

LEMMA TypesShown == AuditInv => AuditTypeOK
BY DEF AuditInv, AuditTypes, AuditTypeOK, OutType, LogType, FileType

LEMMA KeptShown == AuditInv => AuditIsKept
<1> SUFFICES ASSUME AuditInv PROVE AuditIsKept
  OBVIOUS
<1>1. LossNeedsFault
  <2>1. IsFiniteSet(Torn) /\ IsFiniteSet(LooseDays)
    <3>1. LooseDays \subseteq Days
      BY DEF LooseDays
    <3> QED
      BY <3>1, DaysAreFew, FS_Subset DEF AuditInv, Spoils
  <2>2. Cardinality(Torn) \in Nat /\ Cardinality(LooseDays) \in Nat
    BY <2>1, FS_CardinalityType
  <2>3. Cardinality(Torn) + Cardinality(LooseDays) <= faults /\ faults \in Nat
    BY AuditAssumption DEF AuditInv, AuditTypes, Spoils
  <2> QED
    BY <2>2, <2>3 DEF LossNeedsFault
<1>2. OneLineEach
  BY DEF AuditInv, Disk, OneLineEach, ReadableIn
<1>3. CloseDrains
  <2>1. ToSet(<<>>) = {}
    BY DEF ToSet
  <2>2. \A e : InBuffer(e) => e \in ToSet(out.buf)
    BY DEF InBuffer, ToSet
  <2> QED
    BY <2>1, <2>2 DEF AuditInv, Memory, CloseDrains
<1> QED
  BY <1>1, <1>2, <1>3 DEF AuditIsKept

\* An answer of Recent is of the newest files, and all of them, or the latest.
LEMMA AnswersAre ==
    ASSUME NEW n, NEW R \in Recent(n)
    PROVE  LET All == UNION {ReadableIn(d) : d \in Newest}
           IN  R \subseteq All /\ \A e \in All \ R, x \in R : stamp[e] <= stamp[x]
BY DEF Recent

LEMMA LatestShown == AuditInv => RecentIsLatest
<1> SUFFICES ASSUME AuditInv, NEW n \in 0 .. MaxPage + 1, NEW R \in handleAuditList(n),
                    NEW e \in Readable \ R, NEW x \in R
             PROVE  stamp[e] <= stamp[x]
  BY DEF RecentIsLatest
<1> DEFINE All == UNION {ReadableIn(d) : d \in Newest}
           After(d) == {y \in Days : log[y] # Never /\ y > d}
<1>1. R \subseteq All /\ \A y \in All \ R, z \in R : stamp[y] <= stamp[z]
  BY AnswersAre DEF handleAuditList
<1>2. PICK d2 \in Days : e \in ReadableIn(d2)
  BY DEF Readable
<1>3. PICK d1 \in Newest : x \in ReadableIn(d1)
  BY <1>1
<1>4. /\ d1 \in Days /\ log[d1] # Never /\ Cardinality(After(d1)) < RecentFiles
  BY <1>3 DEF Newest
<1>5. log[d2] # Never
  BY <1>2 DEF ReadableIn
<1>6. CASE d2 \in Newest
  BY <1>1, <1>2, <1>6
<1>7. CASE d2 \notin Newest
  <2>1. ~(Cardinality(After(d2)) < RecentFiles)
    BY <1>5, <1>7 DEF Newest
  <2>2. d1 \in Nat /\ d2 \in Nat
    BY <1>4, DaysAreFew
  <2>3. IsFiniteSet(After(d1)) /\ IsFiniteSet(After(d2))
    <3>1. After(d1) \subseteq Days /\ After(d2) \subseteq Days
      OBVIOUS
    <3> QED
      BY <3>1, DaysAreFew, FS_Subset
  <2>4. Cardinality(After(d1)) \in Nat /\ Cardinality(After(d2)) \in Nat
    BY <2>3, FS_CardinalityType
  <2>5. d2 < d1
    <3> SUFFICES ASSUME d1 <= d2 PROVE FALSE
      BY <2>2
    <3>1. ASSUME NEW y \in After(d2) PROVE y \in After(d1)
      <4>1. y \in Days /\ y \in Nat /\ y > d2 /\ log[y] # Never
        BY DaysAreFew
      <4> QED
        BY <2>2, <4>1
    <3>2. Cardinality(After(d2)) <= Cardinality(After(d1))
      BY <2>3, <3>1, FS_Subset
    <3> HIDE DEF After
    <3> QED
      BY <1>4, <2>1, <2>4, <3>2, AuditAssumption
  <2>6. /\ e \in Event /\ x \in Event /\ DayOf(stamp[e]) = d2 /\ DayOf(stamp[x]) = d1
        /\ stamp \in [Event -> 0 .. MaxTime]
    <3>1. log[d1] \in FileType /\ log[d2] \in FileType
      BY <1>4, <1>5 DEF AuditInv, AuditTypes, LogType
    <3>2. log[d1].lines \in Seq(Event) /\ log[d2].lines \in Seq(Event)
      BY <3>1 DEF FileType
    <3>3. ToSet(log[d1].lines) \subseteq Event /\ ToSet(log[d2].lines) \subseteq Event
      BY <3>2, ElementsAre
    <3>4. e \in ToSet(log[d2].lines) /\ x \in ToSet(log[d1].lines)
      BY <1>2, <1>3, <1>4, <1>5 DEF ReadableIn
    <3> QED
      BY <1>4, <1>5, <3>3, <3>4 DEF AuditInv, AuditTypes, Disk
  <2> QED
    BY <2>5, <2>6, DaysGoUp
<1> QED
  BY <1>6, <1>7

-----------------------------------------------------------------------------
(* The results. *)

LEMMA AuditInvHolds == AuditSpec => []AuditInv
BY AuditStart, AuditKeeps, PTL DEF AuditSpec

\* However callers of Emit, the writer, days, failing opens and writes, Close and
\* crashes interleave: an event the writer took is in its buffer or can be read,
\* once, in the file of its day, or was in memory at a fault, or is one of at
\* most as many as there were faults; and Close leaves nothing in memory.
THEOREM EventsAreKept == AuditSpec => []AuditIsKept
BY AuditInvHolds, KeptShown, PTL

\* Recent opens only the newest files, and no event it leaves out is later than
\* one it gives, for any number of files and events and any limit.
THEOREM LatestAreGiven == AuditSpec => []RecentIsLatest
BY AuditInvHolds, LatestShown, PTL

\* The handlers and the recorder share no state: together each does its own.
LEMMA BothGoOn == ServicesSpec => Spec /\ AuditSpec
<1>1. ServicesInit => Init /\ AuditInit
  BY DEF ServicesInit
<1>2. [ServicesNext]_all => [Next]_vars /\ [AuditNext]_avars
  BY DEF ServicesNext, all
<1> QED
  BY <1>1, <1>2, PTL DEF ServicesSpec, Spec, AuditSpec

\* The variables of the handlers and of the recorder keep their types: the queue
\* its bound, the buffer its file, and every file its lines.
THEOREM ServicesTyping == ServicesSpec => []ServicesTypeOK
<1>1. TypeOK /\ AuditTypeOK <=> ServicesTypeOK
  BY DEF ServicesTypeOK
<1> QED
  BY BothGoOn, Typing, AuditInvHolds, TypesShown, <1>1, PTL

=============================================================================
