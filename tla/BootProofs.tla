----------------------------- MODULE BootProofs -----------------------------
(***************************************************************************)
(* Proofs about MCBoot.  Load: what is on disk, step by step of a first    *)
(* boot, crashes included, and what substitute keeps of a text.  The       *)
(* process and its plugins: what overlapping calls can and cannot leave    *)
(* behind, and what LoadAll has made of the directory when main registers. *)
(***************************************************************************)
EXTENDS MCBoot, SequenceTheorems, FiniteSetTheorems, WellFoundedInduction, TLAPS

-----------------------------------------------------------------------------
(* Parts of texts. *)

LEMMA LeastIsThere ==
    ASSUME NEW I \in SUBSET Nat, I # {}
    PROVE  \E m \in I : \A n \in I : m <= n
<1>1. PICK m \in I : \A n \in I : ~ (<<n, m>> \in OpToRel(<, Nat))
  BY NatLessThanWellFounded, WFMin
<1>2. \A n \in I : ~ (n < m)
  BY <1>1 DEF OpToRel
<1> QED
  BY <1>2

\* The first place that passes a test, or 0 when none does.
LEMMA FindIs ==
    ASSUME NEW S, NEW v \in Seq(S), NEW t
    PROVE  /\ Find(v, t) \in 0 .. Len(v)
           /\ Find(v, t) # 0 => v[Find(v, t)] = t
           /\ Find(v, t) = 0 <=> t \notin ToSet(v)
<1> DEFINE I == {i \in 1 .. Len(v) : v[i] = t}
<1>1. Len(v) \in Nat /\ DOMAIN v = 1 .. Len(v)
  BY LenProperties
<1>2. I \in SUBSET Nat
  BY <1>1
<1>3. I # {} => Min(I) \in I
  BY <1>2, LeastIsThere DEF Min
<1>4. Find(v, t) = IF I # {} THEN Min(I) ELSE 0
  BY DEF Find, SelectInSeq
<1>5. I = {} <=> t \notin ToSet(v)
  BY <1>1 DEF ToSet
<1> QED
  BY <1>1, <1>3, <1>4, <1>5

LEMMA SliceIs ==
    ASSUME NEW S, NEW v \in Seq(S), NEW m \in Nat \ {0}, NEW n \in Int, n <= Len(v)
    PROVE  SubSeq(v, m, n) \in Seq(S) /\ ToSet(SubSeq(v, m, n)) \subseteq ToSet(v)
<1> DEFINE s == SubSeq(v, m, n)
<1>1. Len(v) \in Nat /\ DOMAIN v = 1 .. Len(v) /\ \A i \in 1 .. Len(v) : v[i] \in S
  BY LenProperties, ElementOfSeq
<1>2. \A i \in m .. n : i \in 1 .. Len(v) /\ v[i] \in S
  BY <1>1
<1>3. /\ s \in Seq(S) /\ Len(s) = IF m <= n THEN n - m + 1 ELSE 0
      /\ \A i \in 1 .. n - m + 1 : s[i] = v[m + i - 1]
  BY <1>2, SubSeqProperties
<1> HIDE DEF s
<1>4. DOMAIN s = 1 .. Len(s)
  BY <1>3, LenProperties
<1>5. ASSUME NEW i \in 1 .. Len(s) PROVE s[i] \in ToSet(v)
  <2>1. m <= n /\ i \in 1 .. n - m + 1
    BY <1>3
  <2>2. s[i] = v[m + i - 1] /\ m + i - 1 \in m .. n
    BY <1>3, <2>1
  <2> QED
    BY <1>1, <1>2, <2>2 DEF ToSet
<1>6. ToSet(s) \subseteq ToSet(v)
  BY <1>4, <1>5 DEF ToSet
<1> QED
  BY <1>3, <1>6 DEF s

LEMMA JoinIs ==
    ASSUME NEW S, NEW v \in Seq(S), NEW w \in Seq(S)
    PROVE  v \o w \in Seq(S) /\ ToSet(v \o w) \subseteq ToSet(v) \cup ToSet(w)
<1> DEFINE c == v \o w
           m == Len(v)
           n == Len(w)
<1>1. /\ c \in Seq(S) /\ Len(c) = m + n /\ m \in Nat /\ n \in Nat
      /\ \A i \in 1 .. m + n : c[i] = IF i <= m THEN v[i] ELSE w[i - m]
      /\ DOMAIN v = 1 .. m /\ DOMAIN w = 1 .. n
  BY ConcatProperties, LenProperties
<1> HIDE DEF c, m, n
<1>2. DOMAIN c = 1 .. m + n
  BY <1>1, LenProperties
<1>3. ASSUME NEW i \in 1 .. m + n PROVE c[i] \in ToSet(v) \cup ToSet(w)
  <2>1. CASE i <= m
    <3>1. i \in 1 .. m /\ c[i] = v[i]
      BY <1>1, <2>1
    <3> QED
      BY <1>1, <3>1 DEF ToSet
  <2>2. CASE ~(i <= m)
    <3>1. i - m \in 1 .. n /\ c[i] = w[i - m]
      BY <1>1, <2>2
    <3> QED
      BY <1>1, <3>1 DEF ToSet
  <2> QED
    BY <2>1, <2>2
<1>4. ToSet(c) \subseteq ToSet(v) \cup ToSet(w)
  BY <1>2, <1>3 DEF ToSet
<1> QED
  BY <1>1, <1>4 DEF c

-----------------------------------------------------------------------------
(* substitute: one turn makes a text again, of its own words and of those of *)
(* the environment.                                                          *)

LEMMA FieldsAre == /\ Field = {"user", "secret", "hash"} /\ Len(Fields) = 3
                   /\ DOMAIN Fields = 1 .. 3 /\ Fields[1] = "user"
                   /\ Fields[2] = "secret" /\ Fields[3] = "hash"
BY DEF Field, Fields, ToSet

LEMMA LookupIs ==
    ASSUME env \in Envs, NEW name \in Text
    PROVE  /\ Lookup(name) \in Text \cup {None}
           /\ Lookup(name) # None => Made["hash"] \notin ToSet(Lookup(name))
<1>1. env \in [Word -> Text \cup {None}]
  BY ConfigAssumption
<1>2. \A w \in Word : env[w] # None => Made["hash"] \notin ToSet(env[w])
  BY ConfigAssumption
<1> QED
  BY <1>1, <1>2 DEF Lookup

LEMMA ExpandIs ==
    ASSUME env \in Envs, NEW v \in Text, Find(v, Open) # 0, Expand(v) # None
    PROVE  /\ Expand(v) \in Text
           /\ Made["hash"] \in ToSet(Expand(v)) => Made["hash"] \in ToSet(v)
<1> DEFINE start == Find(v, Open)
           rest == After(v, start)
           end == Find(rest, Shut)
           ref == SubSeq(rest, 1, end - 1)
           sep == Find(ref, Sep)
           name == IF sep = 0 THEN ref ELSE SubSeq(ref, 1, sep - 1)
           def == IF sep = 0 THEN <<>> ELSE After(ref, sep)
           val == Lookup(name)
           new == IF val \in {None, <<>>} /\ def # <<>> THEN def ELSE val
           left == SubSeq(v, 1, start - 1)
           right == After(rest, end)
<1>1. start \in 1 .. Len(v) /\ Len(v) \in Nat
  BY FindIs, LenProperties DEF Text
<1>2. /\ rest \in Text /\ ToSet(rest) \subseteq ToSet(v)
      /\ left \in Text /\ ToSet(left) \subseteq ToSet(v)
  <2> HIDE DEF start
  <2> QED
    BY <1>1, SliceIs DEF Text, After
<1>e. /\ ~(end = 0 \/ (val = None /\ def = <<>>))
      /\ Expand(v) = left \o new \o right
  BY DEF Expand
<1> HIDE DEF start, rest, left
<1>3. end \in 1 .. Len(rest) /\ Len(rest) \in Nat
  BY <1>2, <1>e, FindIs, LenProperties DEF Text
<1>4. /\ ref \in Text /\ ToSet(ref) \subseteq ToSet(v)
      /\ right \in Text /\ ToSet(right) \subseteq ToSet(v)
  <2> HIDE DEF end
  <2> QED
    BY <1>2, <1>3, SliceIs DEF Text, After
<1> HIDE DEF end, ref, right
<1>5. sep \in 0 .. Len(ref) /\ Len(ref) \in Nat
  BY <1>4, FindIs, LenProperties DEF Text
<1>6. name \in Text /\ def \in Text /\ ToSet(def) \subseteq ToSet(v)
  <2>1. CASE sep = 0
    BY <1>4, <2>1 DEF Text, ToSet
  <2>2. CASE sep # 0
    <3> HIDE DEF sep
    <3>1. SubSeq(ref, 1, sep - 1) \in Text /\ After(ref, sep) \in Text /\ ToSet(After(ref, sep)) \subseteq ToSet(ref)
      BY <1>4, <1>5, <2>2, SliceIs DEF Text, After
    <3> QED
      BY <1>4, <2>2, <3>1
  <2> QED
    BY <2>1, <2>2
<1> HIDE DEF name, def
<1>7. new \in Text /\ (Made["hash"] \in ToSet(new) => Made["hash"] \in ToSet(v))
  BY <1>6, <1>e, LookupIs
<1> HIDE DEF new
<1>8. /\ left \o new \in Text /\ ToSet(left \o new) \subseteq ToSet(left) \cup ToSet(new)
  BY <1>2, <1>7, JoinIs DEF Text
<1>9. /\ (left \o new) \o right \in Text
      /\ ToSet((left \o new) \o right) \subseteq ToSet(left \o new) \cup ToSet(right)
  BY <1>4, <1>8, JoinIs DEF Text
<1> QED
  BY <1>2, <1>4, <1>7, <1>8, <1>9, <1>e
-----------------------------------------------------------------------------
(* The invariant of Load. *)

\* The file is there and complete; Load has read it; a text has the made hash.
Whole == disk \in [Field -> Text]
Past == load.pc \in {"substitute", "check", "loaded", "done"}
HasHash(text) == Made["hash"] \in ToSet(text)

\* What a first boot finds and writes at each of its steps.
FirstBoot ==
    /\ load.pc = "down" => ~load.first
    /\ load.pc \in {"seed", "secret", "hash"} => load.first
    /\ load.first =>
          /\ load.pc \in {"read", "substitute"} => disk = Seeded({})
          /\ load.pc = "substitute" => load.cfg = Seeded({})
          /\ load.pc = "secret" => disk \in {Seeded({}), Torn}
          /\ load.pc = "hash" => disk \in {Seeded({"secret"}), Torn}
          /\ load.pc \in {"check", "loaded", "done"} => disk = Seeded({"secret", "hash"})
          /\ load.pc \in {"secret", "hash", "check", "loaded", "done"} =>
                load.cfg = Seeded({"secret", "hash"})

\* Past the reading the file is whole, a field that is done has no reference,
\* and one without a reference is as on disk.
Expanded ==
    Past => /\ Whole
            /\ \A i \in 1 .. 3 : load.pc # "substitute" \/ i < load.next =>
                                    Open \notin ToSet(load.cfg[Fields[i]])
            /\ \A f \in Field : Open \notin ToSet(disk[f]) => load.cfg[f] = disk[f]
            /\ HasHash(load.cfg["hash"]) => HasHash(disk["hash"])

\* The hash that was made is on disk only when it was shown or is about to be.
HashWasShown ==
    Whole /\ HasHash(disk["hash"]) =>
       shown \/ cut \/ (load.first /\ load.pc \in {"check", "loaded"})

\* The inductive invariant: Load always is at one of these points.
LoadInv ==
    /\ CfgTypeOK
    /\ load.pc \notin {"down", "seed"} => disk # None
    /\ load.pc \in {"down", "seed", "read"} => load.next = 1
    /\ FirstBoot /\ Expanded /\ HashWasShown
    /\ Up => load.cfg["secret"] # <<>> /\ load.cfg["hash"] # <<>>

-----------------------------------------------------------------------------
(* What the steps of Load do to its record. *)

LEMMA WordsAre ==
    /\ Open \notin Word /\ None # Torn
    /\ \A f \in Field : Made[f] \in Word
    /\ None \notin [Field -> Text] /\ Torn \notin [Field -> Text]
BY ConfigAssumption

LEMMA SeedIs ==
    ASSUME NEW done \in SUBSET Field
    PROVE  /\ Seeded(done) \in [Field -> Text]
           /\ \A f \in Field : Seeded(done)[f] = IF f \in done \cup {"user"} THEN <<Made[f]>> ELSE <<>>
           /\ \A f \in Field : Open \notin ToSet(Seeded(done)[f])
           /\ HasHash(Seeded(done)["hash"]) => "hash" \in done
<1>1. \A f \in Field : <<Made[f]>> \in Text /\ ToSet(<<Made[f]>>) = {Made[f]}
  BY WordsAre DEF Text, ToSet
<1>2. <<>> \in Text /\ ToSet(<<>>) = {}
  BY DEF Text, ToSet
<1>3. /\ Seeded(done) \in [Field -> Text]
      /\ \A f \in Field : Seeded(done)[f] = IF f \in done \cup {"user"} THEN <<Made[f]>> ELSE <<>>
  BY <1>1, <1>2 DEF Seeded
<1>4. \A f \in Field : Open \notin ToSet(Seeded(done)[f])
  BY <1>1, <1>2, <1>3, WordsAre
<1>5. HasHash(Seeded(done)["hash"]) => "hash" \in done
  BY <1>2, <1>3, FieldsAre DEF HasHash
<1> QED
  BY <1>3, <1>4, <1>5

LEMMA SeededWhole ==
    /\ Seeded({}) \in [Field -> Text] /\ Seeded({"secret"}) \in [Field -> Text]
    /\ Seeded({"secret", "hash"}) \in [Field -> Text]
    /\ \A f \in Field : /\ Open \notin ToSet(Seeded({})[f])
                        /\ Open \notin ToSet(Seeded({"secret"})[f])
                        /\ Open \notin ToSet(Seeded({"secret", "hash"})[f])
    /\ ~HasHash(Seeded({})["hash"]) /\ ~HasHash(Seeded({"secret"})["hash"])
    /\ Seeded({"secret", "hash"})["secret"] # <<>>
    /\ Seeded({"secret", "hash"})["hash"] # <<>>
<1>1. {} \in SUBSET Field /\ {"secret"} \in SUBSET Field /\ {"secret", "hash"} \in SUBSET Field
  BY FieldsAre
<1>2. \A y : <<y>> # <<>>
  OBVIOUS
<1> QED
  BY <1>1, <1>2, SeedIs, FieldsAre

LEMMA LoadFields ==
    ASSUME CfgTypeOK
    PROVE  /\ load.pc \in {"down", "seed", "read", "substitute", "secret", "hash", "check",
                           "loaded", "done"}
           /\ load.first \in BOOLEAN /\ load.cfg \in [Field -> Text] /\ load.next \in 1 .. 3
           /\ load = [pc |-> load.pc, first |-> load.first, cfg |-> load.cfg, next |-> load.next]
BY FieldsAre DEF CfgTypeOK

LEMMA DownIs ==
    /\ Down.pc = "down" /\ ~Down.first /\ Down.cfg = Seeded({}) /\ Down.next = 1
    /\ Down \in [pc : {"down", "seed", "read", "substitute", "secret", "hash", "check",
                       "loaded", "done"},
                 first : BOOLEAN, cfg : [Field -> Text], next : DOMAIN Fields]
BY SeededWhole, FieldsAre DEF Down

\* A record that is load with other fields.
LEMMA LoadMoves ==
    ASSUME NEW p \in {"down", "seed", "read", "substitute", "secret", "hash", "check",
                       "loaded", "done"},
           NEW i \in BOOLEAN, NEW c \in [Field -> Text], NEW n \in 1 .. 3,
           load' = [pc |-> p, first |-> i, cfg |-> c, next |-> n]
    PROVE  /\ load' \in [pc : {"down", "seed", "read", "substitute", "secret", "hash", "check",
                       "loaded", "done"},
                 first : BOOLEAN, cfg : [Field -> Text], next : DOMAIN Fields]
           /\ load'.pc = p /\ load'.first = i /\ load'.cfg = c /\ load'.next = n
BY FieldsAre

LEMMA StartHolds == LoadInv /\ Start => LoadInv'
<1> SUFFICES ASSUME LoadInv, Start PROVE LoadInv'
  OBVIOUS
<1> DEFINE p == IF disk = None THEN "seed" ELSE "read"
           i == (disk = None)
           c == Seeded({})
<1>1. load' = [pc |-> p, first |-> i, cfg |-> c, next |-> 1]
  BY DEF Start, Down
<1>2. /\ i \in BOOLEAN /\ c \in [Field -> Text] /\ 1 \in 1 .. 3
      /\ p \in {"down", "seed", "read", "substitute", "secret", "hash", "check", "loaded", "done"}
  BY SeededWhole
<1> HIDE DEF p, i, c
<1>3. /\ load' \in [pc : {"down", "seed", "read", "substitute", "secret", "hash", "check",
                       "loaded", "done"},
                 first : BOOLEAN, cfg : [Field -> Text], next : DOMAIN Fields]
      /\ load'.pc = p /\ load'.first = i /\ load'.cfg = c /\ load'.next = 1
  BY <1>1, <1>2, LoadMoves
<1>4. UNCHANGED <<disk, shown, cut>> /\ env' \in Envs /\ load.pc = "down" /\ ~load.first
  BY DEF Start, LoadInv, FirstBoot
<1>5. CfgTypeOK'
  BY <1>3, <1>4 DEF LoadInv, CfgTypeOK
<1>6. (p = "read" => disk # None) /\ (i <=> p = "seed") /\ p \in {"seed", "read"}
  BY DEF p, i
<1>7. FirstBoot' /\ Expanded' /\ (load'.pc \notin {"down", "seed"} => disk' # None)
  BY <1>2, <1>3, <1>4, <1>6 DEF FirstBoot, Expanded, Past
<1>8. HashWasShown'
  BY <1>4 DEF LoadInv, HashWasShown, Whole, HasHash
<1> QED
  BY <1>2, <1>3, <1>5, <1>6, <1>7, <1>8 DEF LoadInv, Up

\* The file is cut short.
LEMMA TruncateHolds == LoadInv /\ Truncate => LoadInv'
<1> SUFFICES ASSUME LoadInv, Truncate PROVE LoadInv'
  OBVIOUS
<1>1. /\ load.pc \in {"seed", "secret", "hash"} /\ disk' = Torn
      /\ UNCHANGED <<env, load, shown, cut>>
  BY DEF Truncate, Writing
<1>2. CfgTypeOK'
  BY <1>1 DEF LoadInv, CfgTypeOK
<1>3. disk' # None /\ ~Whole' /\ ~Past'
  BY <1>1, WordsAre DEF Whole, Past
<1>4. FirstBoot'
  BY <1>1 DEF LoadInv, FirstBoot
<1> QED
  BY <1>1, <1>2, <1>3, <1>4 DEF LoadInv, Expanded, HashWasShown, Up

LEMMA WriteHolds == LoadInv /\ Write => LoadInv'
<1> SUFFICES ASSUME LoadInv, Write PROVE LoadInv'
  OBVIOUS
<1> USE DEF LoadInv
<1> DEFINE p == CASE load.pc = "seed" -> "read" [] load.pc = "secret" -> "hash" [] OTHER -> "check"
           i == load.first
           c == load.cfg
           n == load.next
<1>1. /\ load.pc \in {"seed", "secret", "hash"} /\ disk' = Persisted
      /\ shown' = (shown /\ load.pc # "seed") /\ UNCHANGED <<env, cut>>
  BY DEF Write, Writing
<1>2. /\ i = TRUE /\ c \in [Field -> Text] /\ n \in 1 .. 3
      /\ p \in {"read", "hash", "check"}
      /\ load = [pc |-> load.pc, first |-> i, cfg |-> c, next |-> n]
  BY <1>1, LoadFields DEF FirstBoot
<1>3. load' = [pc |-> p, first |-> i, cfg |-> c, next |-> n]
  BY <1>2 DEF Write
<1>4. /\ load.pc = "seed" => p = "read" /\ disk' = Seeded({})
      /\ load.pc = "secret" => p = "hash" /\ disk' = Seeded({"secret"}) /\ c = Seeded({"secret", "hash"})
      /\ load.pc = "hash" => p = "check" /\ disk' = Seeded({"secret", "hash"}) /\ c = Seeded({"secret", "hash"})
  BY <1>1, <1>2 DEF Persisted, FirstBoot
<1> HIDE DEF p, i, c, n
<1>5. /\ load' \in [pc : {"down", "seed", "read", "substitute", "secret", "hash", "check",
                       "loaded", "done"},
                 first : BOOLEAN, cfg : [Field -> Text], next : DOMAIN Fields]
      /\ load'.pc = p /\ load'.first = i /\ load'.cfg = c /\ load'.next = n
  BY <1>2, <1>3, LoadMoves
<1>6. Whole' /\ disk' # None
  BY <1>1, <1>4, SeededWhole, WordsAre DEF Whole
<1>7. CfgTypeOK'
  BY <1>1, <1>5, <1>6 DEF CfgTypeOK, Whole
<1>8. FirstBoot'
  BY <1>1, <1>2, <1>4, <1>5 DEF FirstBoot
<1>9. Expanded'
  <2>1. CASE p = "check"
    BY <1>1, <1>4, <1>5, <1>6, <2>1, SeededWhole, FieldsAre DEF Expanded
  <2>2. CASE p # "check"
    BY <1>2, <1>5, <2>2 DEF Expanded, Past
  <2> QED
    BY <2>1, <2>2
<1>10. HashWasShown'
  BY <1>1, <1>2, <1>4, <1>5, SeededWhole DEF HashWasShown, HasHash
<1>11. load'.pc = "read" => load'.next = 1
  BY <1>1, <1>4, <1>5 DEF n
<1> QED
  BY <1>2, <1>5, <1>6, <1>7, <1>8, <1>9, <1>10, <1>11 DEF Up

LEMMA ReadHolds == LoadInv /\ Read => LoadInv'
<1> SUFFICES ASSUME LoadInv, Read PROVE LoadInv'
  OBVIOUS
<1> USE DEF LoadInv
<1>1. load.pc = "read" /\ UNCHANGED <<disk, env, shown, cut>> /\ disk # None
  BY DEF Read
<1>2. CASE disk = Torn
  <2>1. load' = Down
    BY <1>2 DEF Read
  <2>2. CfgTypeOK'
    BY <1>1, <2>1, DownIs DEF CfgTypeOK
  <2>3. load'.pc = "down" /\ ~load'.first /\ ~Whole'
    BY <1>1, <1>2, <2>1, DownIs, WordsAre DEF Whole
  <2> QED
    BY <2>1, <2>2, <2>3, DownIs DEF FirstBoot, Expanded, Past, HashWasShown, Up
<1>3. CASE disk # Torn
  <2> DEFINE i == load.first
             n == load.next
  <2>1. Whole
    BY <1>1, <1>3 DEF CfgTypeOK, Whole
  <2>2. i \in BOOLEAN /\ n \in 1 .. 3
    BY LoadFields
  <2>3. load' = [pc |-> "substitute", first |-> i, cfg |-> disk, next |-> n]
    BY <1>3, LoadFields DEF Read
  <2> HIDE DEF i, n
  <2>4. /\ load' \in [pc : {"down", "seed", "read", "substitute", "secret", "hash", "check",
                         "loaded", "done"},
                   first : BOOLEAN, cfg : [Field -> Text], next : DOMAIN Fields]
        /\ load'.pc = "substitute" /\ load'.first = i /\ load'.cfg = disk /\ load'.next = n
    BY <2>1, <2>2, <2>3, LoadMoves DEF Whole
  <2>5. CfgTypeOK' /\ HashWasShown'
    BY <1>1, <2>4 DEF CfgTypeOK, HashWasShown, Whole, HasHash
  <2>6. FirstBoot'
    BY <1>1, <2>4 DEF FirstBoot, i
  <2>7. Expanded'
    BY <1>1, <2>1, <2>2, <2>4 DEF Expanded, Whole, HasHash, n
  <2> QED
    BY <1>1, <2>4, <2>5, <2>6, <2>7 DEF Up
<1> QED
  BY <1>2, <1>3

-----------------------------------------------------------------------------
(* One turn of substitute, by what it comes to. *)

LEMMA RecordMoves ==
    ASSUME NEW p, NEW i, NEW c, NEW n, NEW q, NEW l,
           l = [pc |-> p, first |-> i, cfg |-> c, next |-> n]
    PROVE  /\ [l EXCEPT !.pc = q] = [pc |-> q, first |-> i, cfg |-> c, next |-> n]
           /\ [l EXCEPT !.cfg = q] = [pc |-> p, first |-> i, cfg |-> q, next |-> n]
           /\ [l EXCEPT !.next = q] = [pc |-> p, first |-> i, cfg |-> c, next |-> q]
<1>1. [l EXCEPT !.pc = q] = [pc |-> q, first |-> i, cfg |-> c, next |-> n]
  OBVIOUS
<1>2. [l EXCEPT !.cfg = q] = [pc |-> p, first |-> i, cfg |-> q, next |-> n]
  OBVIOUS
<1>3. [l EXCEPT !.next = q] = [pc |-> p, first |-> i, cfg |-> c, next |-> q]
  OBVIOUS
<1> QED
  BY <1>1, <1>2, <1>3

LEMMA NextFieldIs ==
    ASSUME CfgTypeOK
    PROVE  /\ load.next < 3 =>
                NextField(load) = [pc |-> load.pc, first |-> load.first, cfg |-> load.cfg,
                                   next |-> load.next + 1]
           /\ load.next = 3 /\ load.first =>
                NextField(load) = [pc |-> "secret", first |-> load.first,
                                   cfg |-> Seeded({"secret", "hash"}), next |-> load.next]
           /\ load.next = 3 /\ ~load.first =>
                NextField(load) = [pc |-> "check", first |-> load.first, cfg |-> load.cfg,
                                   next |-> load.next]
<1>1. /\ load = [pc |-> load.pc, first |-> load.first, cfg |-> load.cfg, next |-> load.next]
      /\ load.next \in 1 .. 3
  BY LoadFields
<1>2. load.next < 3 => NextField(load) = [load EXCEPT !.next = @ + 1]
  BY FieldsAre DEF NextField
<1>3. load.next = 3 /\ load.first =>
        NextField(load) = [load EXCEPT !.pc = "secret", !.cfg = Seeded({"secret", "hash"})]
  BY FieldsAre DEF NextField
<1>4. load.next = 3 /\ ~load.first => NextField(load) = [load EXCEPT !.pc = "check"]
  BY FieldsAre DEF NextField
<1> DEFINE p == load.pc
           i == load.first
           c == load.cfg
           n == load.next
<1>5. load = [pc |-> p, first |-> i, cfg |-> c, next |-> n]
  BY <1>1 DEF p, i, c, n
<1> HIDE DEF p, i, c, n
<1>6. [load EXCEPT !.next = @ + 1] = [pc |-> p, first |-> i, cfg |-> c, next |-> n + 1]
  <2>1. [load EXCEPT !.next = @ + 1] = [load EXCEPT !.next = n + 1]
    BY <1>5
  <2> QED
    BY <1>5, <2>1, RecordMoves
<1>7. [load EXCEPT !.pc = "check"] = [pc |-> "check", first |-> i, cfg |-> c, next |-> n]
  BY <1>5, RecordMoves
<1>8. [load EXCEPT !.pc = "secret", !.cfg = Seeded({"secret", "hash"})]
           = [pc |-> "secret", first |-> i, cfg |-> Seeded({"secret", "hash"}), next |-> n]
  <2> DEFINE d == Seeded({"secret", "hash"})
             l == [load EXCEPT !.pc = "secret"]
  <2>1. [load EXCEPT !.pc = "secret", !.cfg = d] = [l EXCEPT !.cfg = d]
    OBVIOUS
  <2>2. l = [pc |-> "secret", first |-> i, cfg |-> c, next |-> n]
    BY <1>5, RecordMoves
  <2> HIDE DEF l, d
  <2>3. [l EXCEPT !.cfg = d] = [pc |-> "secret", first |-> i, cfg |-> d, next |-> n]
    BY <2>2, RecordMoves
  <2> QED
    BY <2>1, <2>3 DEF d
<1> QED
  BY <1>2, <1>3, <1>4, <1>6, <1>7, <1>8 DEF p, i, c, n

\* A load that ends with the process: the file stays as it is.
LEMMA DownHolds ==
    ASSUME LoadInv, load' = Down, UNCHANGED <<disk, env, shown>>, cut' \in BOOLEAN,
           cut => cut', load.first /\ load.pc # "done" => cut'
    PROVE  LoadInv'
<1> USE DEF LoadInv
<1>1. CfgTypeOK'
  BY DownIs DEF CfgTypeOK
<1>2. /\ load'.pc = "down" /\ ~load'.first /\ load'.next = 1
  BY DownIs
<1>3. FirstBoot' /\ Expanded'
  BY <1>2 DEF FirstBoot, Expanded, Past
<1>4. HashWasShown'
  BY DEF HashWasShown, Whole, HasHash
<1> QED
  BY <1>1, <1>2, <1>3, <1>4 DEF Up

LEMMA DieHolds == LoadInv /\ CfgDie => LoadInv'
<1> SUFFICES ASSUME LoadInv, CfgDie PROVE LoadInv'
  OBVIOUS
<1>1. cut \in BOOLEAN /\ load.first \in BOOLEAN
  BY LoadFields DEF LoadInv, CfgTypeOK
<1>2. cut' = (cut \/ (load.first /\ load.pc # "done"))
  BY DEF CfgDie
<1>3. load' = Down /\ UNCHANGED <<disk, env, shown>>
  BY DEF CfgDie
<1>4. cut' \in BOOLEAN
  BY <1>1, <1>2
<1> QED
  BY <1>2, <1>3, <1>4, DownHolds

\* The start of a field, or of a turn: no field before it changes.
LEMMA TurnHolds ==
    ASSUME LoadInv, UNCHANGED <<disk, env, shown, cut>>, load.pc = "substitute",
           NEW c \in [Field -> Text], NEW n \in 1 .. 3,
           load' = [pc |-> "substitute", first |-> load.first, cfg |-> c, next |-> n],
           load.first => c = load.cfg,
           \A i \in 1 .. 3 : i < n => Open \notin ToSet(c[Fields[i]]),
           \A f \in Field : Open \notin ToSet(disk[f]) => c[f] = disk[f],
           HasHash(c["hash"]) => HasHash(disk["hash"])
    PROVE  LoadInv'
<1> USE DEF LoadInv
<1> DEFINE i == load.first
<1>1. i \in BOOLEAN
  BY LoadFields
<1>2. load' = [pc |-> "substitute", first |-> i, cfg |-> c, next |-> n]
  OBVIOUS
<1> HIDE DEF i
<1>3. /\ load' \in [pc : {"down", "seed", "read", "substitute", "secret", "hash", "check",
                       "loaded", "done"},
                 first : BOOLEAN, cfg : [Field -> Text], next : DOMAIN Fields]
      /\ load'.pc = "substitute" /\ load'.first = i /\ load'.cfg = c /\ load'.next = n
  BY <1>1, <1>2, LoadMoves
<1>4. CfgTypeOK'
  BY <1>3 DEF CfgTypeOK
<1>5. FirstBoot'
  BY <1>3 DEF FirstBoot, i
<1>6. Expanded'
  BY <1>3 DEF Expanded, Past, Whole, HasHash
<1>7. HashWasShown'
  BY <1>3 DEF HashWasShown, Whole, HasHash, i
<1> QED
  BY <1>3, <1>4, <1>5, <1>6, <1>7 DEF Up

LEMMA SubstituteHolds == LoadInv /\ Substitute => LoadInv'
<1> SUFFICES ASSUME LoadInv, Substitute PROVE LoadInv'
  OBVIOUS
<1> USE DEF LoadInv
<1> DEFINE f == Fields[load.next]
           v == load.cfg[f]
           i == load.first
           n == load.next
           cfg == load.cfg
<1>1. /\ load.pc = "substitute" /\ UNCHANGED <<disk, env, shown, cut>>
      /\ i \in BOOLEAN /\ cfg \in [Field -> Text] /\ n \in 1 .. 3
      /\ f \in Field /\ v \in Text /\ env \in Envs
  BY LoadFields, FieldsAre DEF Substitute, CfgTypeOK
<1>2. /\ Find(v, Open) = 0 <=> Open \notin ToSet(v)
  BY <1>1, FindIs DEF Text
<1>3. /\ Whole
      /\ \A k \in 1 .. 3 : k < n => Open \notin ToSet(cfg[Fields[k]])
      /\ \A g \in Field : Open \notin ToSet(disk[g]) => cfg[g] = disk[g]
      /\ HasHash(cfg["hash"]) => HasHash(disk["hash"])
  BY <1>1 DEF Expanded, Past
<1>4. i => cfg = Seeded({}) /\ disk = Seeded({})
  BY <1>1 DEF FirstBoot
<1>5. CASE Find(v, Open) # 0 /\ Expand(v) = None
  <2>1. load' = Down
    BY <1>5 DEF Substitute
  <2>2. ~i
    BY <1>1, <1>2, <1>4, <1>5, SeededWhole
  <2> QED
    BY <1>1, <2>1, <2>2, DownHolds DEF CfgTypeOK
<1>6. CASE Find(v, Open) # 0 /\ Expand(v) # None
  <2> DEFINE w == Expand(v)
             c == [cfg EXCEPT ![f] = w]
  <2>1. load' = [pc |-> "substitute", first |-> i, cfg |-> c, next |-> n]
    <3>1. load' = [load EXCEPT !.cfg[f] = w]
      BY <1>6 DEF Substitute
    <3>2. load = [pc |-> "substitute", first |-> i, cfg |-> cfg, next |-> n]
      BY <1>1, LoadFields
    <3> HIDE DEF w, f, i, n, cfg
    <3> QED
      BY <3>1, <3>2
  <2>2. w \in Text /\ (HasHash(w) => HasHash(v))
    BY <1>1, <1>6, ExpandIs DEF HasHash
  <2>3. ~i
    BY <1>1, <1>2, <1>4, <1>6, SeededWhole
  <2>4. Open \in ToSet(v)
    BY <1>2, <1>6
  <2>5. \A k \in 1 .. 3 : k < n => Fields[k] # f
    BY <1>1, FieldsAre
  <2> HIDE DEF w
  <2>6. /\ c \in [Field -> Text] /\ c[f] = w
        /\ \A g \in Field : g # f => c[g] = cfg[g]
    BY <1>1, <2>2
  <2>7. \A k \in 1 .. 3 : k < n => Open \notin ToSet(c[Fields[k]])
    BY <1>3, <2>5, <2>6, FieldsAre
  <2>8. \A g \in Field : Open \notin ToSet(disk[g]) => c[g] = disk[g]
    BY <1>3, <2>4, <2>6
  <2>9. HasHash(c["hash"]) => HasHash(disk["hash"])
    BY <1>3, <2>2, <2>6, FieldsAre
  <2> HIDE DEF c
  <2> QED
    BY <1>1, <2>1, <2>3, <2>6, <2>7, <2>8, <2>9, TurnHolds DEF i
<1>7. CASE Find(v, Open) = 0
  <2>1. load' = NextField(load)
    BY <1>7 DEF Substitute
  <2>2. Open \notin ToSet(v)
    BY <1>2, <1>7
  <2>3. CASE n < 3
    <3>1. load' = [pc |-> "substitute", first |-> i, cfg |-> cfg, next |-> n + 1]
      BY <1>1, <2>1, <2>3, NextFieldIs
    <3>2. \A k \in 1 .. 3 : k < n + 1 => Open \notin ToSet(cfg[Fields[k]])
      BY <1>1, <1>3, <2>2
    <3>3. n + 1 \in 1 .. 3
      BY <1>1, <2>3
    <3> DEFINE m == n + 1
    <3>4. /\ load' = [pc |-> "substitute", first |-> load.first, cfg |-> cfg, next |-> m]
          /\ \A k \in 1 .. 3 : k < m => Open \notin ToSet(cfg[Fields[k]])
          /\ m \in 1 .. 3 /\ (load.first => cfg = load.cfg)
      BY <3>1, <3>2, <3>3
    <3> HIDE DEF m, cfg
    <3> QED
      BY <1>1, <1>3, <3>4, TurnHolds
  <2>4. CASE n = 3 /\ i
    <3> DEFINE c == Seeded({"secret", "hash"})
    <3>1. load' = [pc |-> "secret", first |-> i, cfg |-> c, next |-> n]
      BY <1>1, <2>1, <2>4, NextFieldIs
    <3>2. c \in [Field -> Text]
      BY SeededWhole
    <3> HIDE DEF c, i, n
    <3>3. /\ load' \in [pc : {"down", "seed", "read", "substitute", "secret", "hash", "check",
                           "loaded", "done"},
                     first : BOOLEAN, cfg : [Field -> Text], next : DOMAIN Fields]
          /\ load'.pc = "secret" /\ load'.first = i /\ load'.cfg = c /\ load'.next = n
      BY <1>1, <3>1, <3>2, LoadMoves
    <3>4. CfgTypeOK'
      BY <1>1, <3>3 DEF CfgTypeOK
    <3>5. FirstBoot'
      BY <1>1, <1>4, <2>4, <3>3 DEF FirstBoot, c
    <3>6. Expanded' /\ HashWasShown'
      BY <1>1, <1>4, <2>4, <3>3, SeededWhole DEF Expanded, Past, HashWasShown, Whole, HasHash
    <3>7. load'.pc \notin {"down", "seed"} => disk' # None
      BY <1>1
    <3> QED
      BY <3>3, <3>4, <3>5, <3>6, <3>7 DEF Up
  <2>5. CASE n = 3 /\ ~i
    <3>1. load' = [pc |-> "check", first |-> i, cfg |-> cfg, next |-> n]
      BY <1>1, <2>1, <2>5, NextFieldIs
    <3>2. \A k \in 1 .. 3 : Open \notin ToSet(cfg[Fields[k]])
      BY <1>1, <1>3, <2>2, <2>5
    <3>3. HashWasShown /\ (load.pc \notin {"down", "seed"} => disk # None)
      OBVIOUS
    <3>4. shown \/ cut \/ ~HasHash(disk["hash"])
      BY <1>3, <2>5, <3>3, <1>1 DEF HashWasShown
    <3> HIDE DEF cfg, i, n
    <3>5. /\ load' \in [pc : {"down", "seed", "read", "substitute", "secret", "hash", "check",
                           "loaded", "done"},
                     first : BOOLEAN, cfg : [Field -> Text], next : DOMAIN Fields]
          /\ load'.pc = "check" /\ load'.first = i /\ load'.cfg = cfg /\ load'.next = n
      BY <1>1, <3>1, LoadMoves
    <3>6. CfgTypeOK'
      BY <1>1, <3>5 DEF CfgTypeOK
    <3>7. FirstBoot'
      BY <2>5, <3>5 DEF FirstBoot
    <3>8. Expanded'
      BY <1>1, <1>3, <3>2, <3>5 DEF Expanded, Past, Whole, HasHash
    <3>9. HashWasShown'
      BY <1>1, <3>4 DEF HashWasShown, HasHash
    <3> QED
      BY <1>1, <3>5, <3>6, <3>7, <3>8, <3>9, <3>3 DEF Up
  <2> QED
    BY <1>1, <2>3, <2>4, <2>5
<1> QED
  BY <1>5, <1>6, <1>7

-----------------------------------------------------------------------------
(* The last steps, and all of them. *)

LEMMA CheckHolds == LoadInv /\ Check => LoadInv'
<1> SUFFICES ASSUME LoadInv, Check PROVE LoadInv'
  OBVIOUS
<1> USE DEF LoadInv
<1>1. load.pc = "check" /\ UNCHANGED <<disk, env, shown, cut>> /\ disk # None
  BY DEF Check
<1> DEFINE i == load.first
           c == load.cfg
           n == load.next
<1>2. /\ i \in BOOLEAN /\ c \in [Field -> Text] /\ n \in 1 .. 3
      /\ load = [pc |-> "check", first |-> i, cfg |-> c, next |-> n]
  BY <1>1, LoadFields
<1>3. CASE <<>> \in {c["secret"], c["hash"]}
  <2>1. load' = Down
    BY <1>3 DEF Check
  <2>2. ~i
    BY <1>1, <1>3, SeededWhole DEF FirstBoot
  <2> QED
    BY <1>1, <2>1, <2>2, DownHolds DEF CfgTypeOK
<1>4. CASE <<>> \notin {c["secret"], c["hash"]}
  <2>1. load' = [load EXCEPT !.pc = "loaded"]
    BY <1>4 DEF Check
  <2> HIDE DEF i, c, n
  <2>2. load' = [pc |-> "loaded", first |-> i, cfg |-> c, next |-> n]
    BY <1>2, <2>1
  <2>3. /\ load' \in [pc : {"down", "seed", "read", "substitute", "secret", "hash", "check",
                         "loaded", "done"},
                   first : BOOLEAN, cfg : [Field -> Text], next : DOMAIN Fields]
        /\ load'.pc = "loaded" /\ load'.first = i /\ load'.cfg = c /\ load'.next = n
    BY <1>2, <2>2, LoadMoves
  <2>4. CfgTypeOK'
    BY <1>1, <2>3 DEF CfgTypeOK
  <2>5. FirstBoot' /\ Expanded' /\ HashWasShown'
    BY <1>1, <2>3 DEF FirstBoot, Expanded, HashWasShown, Past, Whole, HasHash, i, c
  <2> QED
    BY <1>1, <1>4, <2>3, <2>4, <2>5 DEF Up
<1> QED
  BY <1>3, <1>4

LEMMA AnnounceHolds == LoadInv /\ Announce => LoadInv'
<1> SUFFICES ASSUME LoadInv, Announce PROVE LoadInv'
  OBVIOUS
<1> USE DEF LoadInv
<1> DEFINE i == load.first
           c == load.cfg
           n == load.next
<1>1. /\ load.pc = "loaded" /\ shown' = (shown \/ i) /\ UNCHANGED <<disk, env, cut>>
      /\ disk # None /\ c["secret"] # <<>> /\ c["hash"] # <<>> /\ shown \in BOOLEAN
  BY DEF Announce, Up, CfgTypeOK
<1>2. /\ i \in BOOLEAN /\ c \in [Field -> Text] /\ n \in 1 .. 3
      /\ load = [pc |-> "loaded", first |-> i, cfg |-> c, next |-> n]
  BY <1>1, LoadFields
<1>3. load' = [load EXCEPT !.pc = "done"]
  BY DEF Announce
<1>4. shown' \in BOOLEAN
  BY <1>1, <1>2
<1> HIDE DEF i, c, n
<1>5. load' = [pc |-> "done", first |-> i, cfg |-> c, next |-> n]
  BY <1>2, <1>3
<1>6. /\ load' \in [pc : {"down", "seed", "read", "substitute", "secret", "hash", "check",
                       "loaded", "done"},
                 first : BOOLEAN, cfg : [Field -> Text], next : DOMAIN Fields]
      /\ load'.pc = "done" /\ load'.first = i /\ load'.cfg = c /\ load'.next = n
  BY <1>2, <1>5, LoadMoves
<1>7. CfgTypeOK'
  BY <1>1, <1>4, <1>6 DEF CfgTypeOK
<1>8. FirstBoot' /\ Expanded' /\ HashWasShown'
  BY <1>1, <1>6 DEF FirstBoot, Expanded, HashWasShown, Past, Whole, HasHash, i, c
<1> QED
  BY <1>1, <1>6, <1>7, <1>8 DEF Up

\* Whatever is put there while the process is down, its hash is not the one that
\* was made, or it was there before.
LEMMA EditHolds == LoadInv /\ Edit => LoadInv'
<1> SUFFICES ASSUME LoadInv, Edit PROVE LoadInv'
  OBVIOUS
<1> USE DEF LoadInv
<1>1. load.pc = "down" /\ UNCHANGED <<env, load, shown>>
  BY DEF Edit
<1>2. ~load'.first
  BY <1>1 DEF FirstBoot
<1>3. FirstBoot' /\ Expanded'
  BY <1>1, <1>2 DEF FirstBoot, Expanded, Past
<1>4. CASE disk' \in {None} \cup Edited /\ cut' = FALSE
  <2>1. CfgTypeOK'
    BY <1>1, <1>4, ConfigAssumption DEF CfgTypeOK
  <2>2. Whole' => ~HasHash(disk'["hash"])
    BY <1>4, WordsAre, ConfigAssumption DEF Whole, HasHash
  <2> QED
    BY <1>1, <1>3, <2>1, <2>2 DEF HashWasShown, Up, HasHash
<1>5. CASE /\ disk \notin {None, Torn} /\ UNCHANGED cut
           /\ \E f \in Edited : disk' = [f EXCEPT !["hash"] = disk["hash"]]
  <2>1. Whole
    BY <1>5 DEF Whole, CfgTypeOK
  <2>2. PICK f \in Edited : disk' = [f EXCEPT !["hash"] = disk["hash"]]
    BY <1>5
  <2>3. disk' \in [Field -> Text] /\ disk'["hash"] = disk["hash"]
    BY <2>1, <2>2, FieldsAre, ConfigAssumption DEF Whole
  <2>4. CfgTypeOK'
    BY <1>1, <1>5, <2>3 DEF CfgTypeOK
  <2>5. HashWasShown'
    BY <1>1, <1>5, <2>1, <2>3 DEF HashWasShown, HasHash
  <2> QED
    BY <1>1, <1>3, <2>4, <2>5 DEF Up
<1> QED
  BY <1>4, <1>5 DEF Edit

LEMMA LoadInit == CfgInit => LoadInv
<1> SUFFICES ASSUME CfgInit PROVE LoadInv
  OBVIOUS
<1>1. /\ disk \in {None} \cup Edited /\ env \in Envs /\ load = Down
      /\ shown = FALSE /\ cut = FALSE
  BY DEF CfgInit
<1>2. CfgTypeOK
  BY <1>1, DownIs, ConfigAssumption DEF CfgTypeOK
<1>3. load.pc = "down" /\ ~load.first /\ load.next = 1
  BY <1>1, DownIs
<1>4. Whole => ~HasHash(disk["hash"])
  BY <1>1, WordsAre, ConfigAssumption DEF Whole, HasHash
<1> QED
  BY <1>2, <1>3, <1>4 DEF LoadInv, FirstBoot, Expanded, Past, HashWasShown, Up

LEMMA LoadRests == LoadInv /\ UNCHANGED cvars => LoadInv'
BY DEF cvars, LoadInv, CfgTypeOK, FirstBoot, Expanded, Past, HashWasShown, Up, Whole, HasHash

LEMMA LoadGoesOn == LoadInv /\ [CfgNext]_cvars => LoadInv'
<1> SUFFICES ASSUME LoadInv, [CfgNext]_cvars PROVE LoadInv'
  OBVIOUS
<1>1. CASE Start
  BY <1>1, StartHolds
<1>2. CASE Truncate
  BY <1>2, TruncateHolds
<1>3. CASE Write
  BY <1>3, WriteHolds
<1>4. CASE Read
  BY <1>4, ReadHolds
<1>5. CASE Substitute
  BY <1>5, SubstituteHolds
<1>6. CASE Check
  BY <1>6, CheckHolds
<1>7. CASE Announce
  BY <1>7, AnnounceHolds
<1>8. CASE CfgDie
  BY <1>8, DieHolds
<1>9. CASE Edit
  BY <1>9, EditHolds
<1>10. CASE UNCHANGED cvars
  BY <1>10, LoadRests
<1> QED
  BY <1>1, <1>2, <1>3, <1>4, <1>5, <1>6, <1>7, <1>8, <1>9, <1>10 DEF CfgNext, LoadStep

LEMMA LoadInvImplies == LoadInv => CfgTypeOK /\ SecretsArePersisted /\ PasswordWasShown
<1> SUFFICES ASSUME LoadInv PROVE CfgTypeOK /\ SecretsArePersisted /\ PasswordWasShown
  OBVIOUS
<1> USE DEF LoadInv
<1>1. SecretsArePersisted
  <2>1. Up => Past /\ load.pc # "substitute"
    BY DEF Up, Past
  <2>2. Up => Whole /\ disk \notin {Torn, None}
    BY <2>1, WordsAre DEF Expanded, Whole
  <2>3. Up => \A i \in 1 .. 3 : Open \notin ToSet(load.cfg[Fields[i]])
    BY <2>1 DEF Expanded
  <2>4. \A f \in Field : \E i \in 1 .. 3 : f = Fields[i]
    BY FieldsAre
  <2> QED
    BY <2>1, <2>2, <2>3, <2>4, FieldsAre DEF Expanded, SecretsArePersisted
<1>2. PasswordWasShown
  <2> SUFFICES ASSUME load.pc = "done", load.cfg["hash"] = <<Made["hash"]>> PROVE shown \/ cut
    BY DEF PasswordWasShown
  <2>1. HasHash(load.cfg["hash"])
    BY DEF HasHash, ToSet
  <2>2. Whole /\ HasHash(disk["hash"])
    BY <2>1 DEF Expanded, Past
  <2> QED
    BY <2>2 DEF HashWasShown
<1> QED
  BY <1>1, <1>2

\* load of config.go: a server that runs has secrets, expanded, and its file
\* leads the next start to the same, also when a first boot was cut anywhere.
THEOREM SecretsPersist == CfgFairSpec => []SecretsArePersisted
<1> QED
  BY LoadInit, LoadGoesOn, LoadInvImplies, PTL DEF CfgFairSpec

\* load keeps a file, an environment and a configuration of their kinds.
THEOREM LoadTyping == CfgFairSpec => []CfgTypeOK
<1> QED
  BY LoadInit, LoadGoesOn, LoadInvImplies, PTL DEF CfgFairSpec

\* load and announce: who runs with a password that first boot made up has been
\* shown it, unless that first boot was cut short.
THEOREM PasswordIsShown == CfgFairSpec => []PasswordWasShown
<1> QED
  BY LoadInit, LoadGoesOn, LoadInvImplies, PTL DEF CfgFairSpec
-----------------------------------------------------------------------------
(* The invariant of the plugins and of the process. *)

\* What a call is about at each of its steps.
Calls ==
    \A c \in Proc :
       /\ call[c].pc \in {"idle", "done"} => call[c].base = Absent /\ call[c].files = {}
       /\ call[c].pc = "open" => /\ call[c].file \in File
                                 /\ call[c].base = BaseOf[call[c].file]
       /\ call[c].pc = "unlink" => call[c].base \in Base
       /\ c \in Caller =>
             /\ call[c].pc # "done"
             /\ call[c].pc = "next" => \E f \in File : /\ call[c].files = {f}
                                                       /\ call[c].base = BaseOf[f]
             /\ call[c].pc \in {"open", "unlink"} => call[c].files = {}
       /\ c = Booter => call[c].pc # "unlink"

\* Two calls about one base name are known to be.
Overlaps == \A c, d \in Proc : c # d /\ call[c].base = call[d].base /\ call[c].base \in Base
                                  => call[c].base \in mixed

\* What is still to load is in the directory.
Loading ==
    \A c \in Proc :
       /\ \A f \in call[c].files : BaseOf[f] \notin mixed => dir[f] # Absent
       /\ call[c].pc = "open" /\ call[c].base \notin mixed => dir[call[c].file] # Absent

\* Every entry is that of a file, and is gone before the file goes.
Entries ==
    /\ \A b \in Base \ mixed : plugins[b] # Absent =>
          /\ plugins[b].file \in OnDisk(b)
          /\ plugins[b].lib # Bad => plugins[b].lib = image[plugins[b].file]
    /\ \A c \in Proc : call[c].pc = "unlink" /\ call[c].base \notin mixed =>
                          plugins[call[c].base] = Absent

\* The inductive invariant of the plugin manager.
PluginInv == PluginTypeOK /\ Calls /\ Overlaps /\ Loading /\ Entries

\* Calls are not made while LoadAll is at work.
Sole == (\A c \in Caller : call[c].pc = "idle") \/ call[Booter].pc \in {"idle", "done"}

\* Until the process serves, nobody but LoadAll is at work.
Alone ==
    /\ run \in {"down", "plugins", "register"} =>
          mixed = {} /\ \A c \in Caller : call[c].pc = "idle"
    /\ run # "plugins" => call[Booter].pc \in {"idle", "done"}
    /\ run = "plugins" => call[Booter].pc # "idle"
    /\ run = "down" => call[Booter].pc = "idle"

\* Before that, every library is what its file is, and every file LoadAll has
\* come to has an entry, or another of its name will have one.
Loaded ==
    /\ run = "down" => \A f \in File : image[f] = Absent
    /\ run = "down" => \A b \in Base : plugins[b] = Absent
    /\ run \in {"plugins", "register"} =>
          /\ \A f \in File : image[f] \in {Absent, dir[f]}
          /\ \A b \in Base : plugins[b] # Absent =>
                /\ plugins[b].file \in OnDisk(b)
                /\ plugins[b].lib = dir[plugins[b].file]
          /\ call[Booter].pc # "idle" => \A f \in Scan :
                \/ f \in call[Booter].files
                \/ call[Booter].pc = "open" /\ call[Booter].base = BaseOf[f]
                \/ plugins[BaseOf[f]] # Absent

\* What is registered and what is still to be are the builtin connectors and
\* the plugins that work.
Registering ==
    /\ run \in {"down", "plugins"} => todo = {}
    /\ run = "plugins" => registry = Builtin
    /\ run = "register" =>
          /\ todo \cap registry \subseteq Builtin
          /\ todo \cup registry = Builtin \cup (IF call[Booter].pc = "done" THEN Connectors ELSE {})
          /\ todo \subseteq Connectors

\* The inductive invariant of the process.
BootInv == BootTypeOK /\ PluginInv /\ Alone /\ Loaded /\ Registering

-----------------------------------------------------------------------------
(* What the steps of the calls do to their records. *)

\* What the record of a call can be.
CallRec == [pc : {"idle", "next", "open", "unlink", "done"}, base : Base \cup {Absent},
            file : File \cup {Absent}, files : SUBSET File]

LEMMA NamesAre ==
    /\ BaseOf \in [File -> Base] /\ Exts \in [Base -> Seq(File)]
    /\ \A b \in Base : ToSet(Exts[b]) = {f \in File : BaseOf[f] = b}
    /\ Absent \notin Base /\ Absent \notin File /\ Absent \notin Lib /\ Bad \notin Lib
    /\ Bad # Absent /\ Booter \notin Caller /\ Booter \in Proc /\ Caller \subseteq Proc
    /\ \A c \in Proc : c # Booter => c \in Caller
    /\ \A f \in File, l \in Lib \cup {Bad} : [file |-> f, lib |-> l] # Absent
BY PluginAssumption DEF Proc

LEMMA RestIs ==
    /\ Rest \in CallRec /\ Rest.pc = "idle" /\ Rest.base = Absent /\ Rest.files = {}
    /\ [Rest EXCEPT !.pc = "done"] \in CallRec
    /\ [Rest EXCEPT !.pc = "done"].pc = "done" /\ [Rest EXCEPT !.pc = "done"].base = Absent
    /\ [Rest EXCEPT !.pc = "done"].files = {}
BY DEF Rest, CallRec

LEMMA CallTypes == PluginTypeOK <=>
    /\ dir \in [File -> Content \cup {Absent}] /\ image \in [File -> Content \cup {Absent}]
    /\ plugins \in [Base -> [file : File, lib : Content] \cup {Absent}]
    /\ call \in [Proc -> CallRec]
    /\ mixed \subseteq Base
BY DEF PluginTypeOK, CallRec

LEMMA CallMoves ==
    ASSUME call \in [Proc -> CallRec], NEW c \in Proc, NEW r \in CallRec,
           call' = [call EXCEPT ![c] = r]
    PROVE  /\ call' \in [Proc -> CallRec] /\ call'[c] = r
           /\ \A d \in Proc : d # c => call'[d] = call[d]
OBVIOUS

LEMMA CallFields ==
    ASSUME call \in [Proc -> CallRec], NEW c \in Proc
    PROVE  /\ call[c] \in CallRec
           /\ call[c].pc \in {"idle", "next", "open", "unlink", "done"}
           /\ call[c].base \in Base \cup {Absent} /\ call[c].file \in File \cup {Absent}
           /\ call[c].files \subseteq File
BY DEF CallRec

\* A step that changes neither the directory nor, but for one base name, the
\* entries, leaves both as they have to be.
LEMMA EntriesStay ==
    ASSUME PluginInv, UNCHANGED image, mixed \subseteq mixed', mixed' \subseteq Base,
           \A f \in File : dir[f] # Absent => dir'[f] # Absent,
           plugins' \in [Base -> [file : File, lib : Content] \cup {Absent}],
           \A b \in Base : plugins'[b] \in {Absent, plugins[b]},
           \A c \in Proc : call'[c].pc = "unlink" /\ call'[c].base \notin mixed' =>
              /\ call'[c].base \in Base
              /\ plugins'[call'[c].base] = Absent \/ call'[c] = call[c]
    PROVE  Entries'
<1>1. ASSUME NEW b \in Base, b \notin mixed', plugins'[b] # Absent
      PROVE  /\ plugins'[b].file \in OnDisk(b)'
             /\ plugins'[b].lib # Bad => plugins'[b].lib = image'[plugins'[b].file]
  <2>1. plugins'[b] = plugins[b] /\ b \notin mixed
    BY <1>1
  <2>2. /\ plugins[b].file \in OnDisk(b)
        /\ plugins[b].lib # Bad => plugins[b].lib = image[plugins[b].file]
    BY <1>1, <2>1 DEF PluginInv, Entries
  <2>3. OnDisk(b) \subseteq OnDisk(b)'
    BY DEF OnDisk
  <2> QED
    BY <2>1, <2>2, <2>3
<1>2. ASSUME NEW c \in Proc, call'[c].pc = "unlink", call'[c].base \notin mixed'
      PROVE  plugins'[call'[c].base] = Absent
  <2>1. call'[c].base \in Base /\ (plugins'[call'[c].base] = Absent \/ call'[c] = call[c])
    BY <1>2
  <2>2. CASE call'[c] = call[c]
    <3>1. plugins[call[c].base] = Absent
      BY <1>2, <2>2 DEF PluginInv, Entries
    <3> QED
      BY <2>1, <2>2, <3>1
  <2> QED
    BY <2>1, <2>2
<1> QED
  BY <1>1, <1>2 DEF Entries

LEMMA ForgetHolds ==
    ASSUME PluginInv, Sole, NEW c \in Proc, Forget(c)
    PROVE  PluginInv'
<1> USE DEF PluginInv
<1>1. PICK f \in call[c].files :
         /\ call[c].pc = "next"
         /\ plugins' = [plugins EXCEPT ![BaseOf[f]] = Absent]
         /\ call' = [call EXCEPT ![c] = [pc |-> "open", base |-> BaseOf[f], file |-> f,
                                    files |-> call[c].files \ {f}]]
         /\ UNCHANGED <<dir, image, mixed>>
  BY DEF Forget
<1> DEFINE b == BaseOf[f]
           s == call[c].files \ {f}
           r == [pc |-> "open", base |-> b, file |-> f, files |-> s]
<1>2. call \in [Proc -> CallRec] /\ mixed \subseteq Base
  BY CallTypes
<1>3. call[c].files \subseteq File /\ f \in File /\ b \in Base /\ s \subseteq File
  BY <1>1, <1>2, CallFields, NamesAre
<1>4. r \in CallRec /\ r.pc = "open" /\ r.base = b /\ r.file = f /\ r.files = s
  BY <1>3 DEF CallRec
<1> HIDE DEF r
<1>5. /\ call' \in [Proc -> CallRec] /\ call'[c] = r
      /\ \A d \in Proc : d # c => call'[d] = call[d]
  BY <1>1, <1>2, <1>4, CallMoves DEF r
<1>6. c \in Caller => call[c].base = b /\ s = {}
  BY <1>1 DEF Calls
<1>7. c \notin Caller => \A d \in Proc : d # c => call[d].base = Absent /\ call[d].files = {}
  BY <1>1, NamesAre DEF Sole, Calls
<1> HIDE DEF b, s
<1>8. plugins' \in [Base -> [file : File, lib : Content] \cup {Absent}]
      /\ \A e \in Base : plugins'[e] \in {Absent, plugins[e]}
  BY <1>1, <1>3, CallTypes DEF b
<1>9. PluginTypeOK'
  BY <1>1, <1>5, <1>8, CallTypes DEF PluginTypeOK, CallRec
<1>10. Calls'
  <2> SUFFICES ASSUME NEW d \in Proc
        PROVE  /\ call'[d].pc \in {"idle", "done"} => call'[d].base = Absent /\ call'[d].files = {}
               /\ call'[d].pc = "open" => /\ call'[d].file \in File
                                          /\ call'[d].base = BaseOf[call'[d].file]
               /\ call'[d].pc = "unlink" => call'[d].base \in Base
               /\ d \in Caller =>
                     /\ call'[d].pc # "done"
                     /\ call'[d].pc = "next" => \E g \in File : /\ call'[d].files = {g}
                                                                /\ call'[d].base = BaseOf[g]
                     /\ call'[d].pc \in {"open", "unlink"} => call'[d].files = {}
               /\ d = Booter => call'[d].pc # "unlink"
    BY DEF Calls
  <2>1. CASE d = c
    BY <1>3, <1>4, <1>5, <1>6, <2>1 DEF b
  <2>2. CASE d # c
    BY <1>5, <2>2 DEF Calls
  <2> QED
    BY <2>1, <2>2
<1>11. Overlaps'
  <2> SUFFICES ASSUME NEW d \in Proc, NEW e \in Proc, d # e, call'[d].base = call'[e].base,
                      call'[d].base \in Base
               PROVE  call'[d].base \in mixed'
    BY DEF Overlaps
  <2>1. CASE c \in Caller
    BY <1>1, <1>4, <1>5, <1>6, <2>1 DEF Overlaps
  <2>2. CASE c \notin Caller
    BY <1>5, <1>7, <2>2, NamesAre
  <2> QED
    BY <2>1, <2>2
<1>12. Loading'
  <2> SUFFICES ASSUME NEW d \in Proc
        PROVE  /\ \A g \in call'[d].files : BaseOf[g] \notin mixed' => dir'[g] # Absent
               /\ call'[d].pc = "open" /\ call'[d].base \notin mixed' => dir'[call'[d].file] # Absent
    BY DEF Loading
  <2>1. CASE d = c
    BY <1>1, <1>4, <1>5, <2>1 DEF Loading, s, b
  <2>2. CASE d # c
    BY <1>1, <1>5, <2>2 DEF Loading
  <2> QED
    BY <2>1, <2>2
<1>13. Entries'
  <2>1. \A d \in Proc : call'[d].pc = "unlink" => call'[d].base \in Base /\ call'[d] = call[d]
    BY <1>4, <1>5 DEF Calls
  <2> QED
    BY <1>1, <1>2, <1>8, <2>1, EntriesStay
<1> QED
  BY <1>9, <1>10, <1>11, <1>12, <1>13

-----------------------------------------------------------------------------
(* A call that is over, or goes on to its next file, and a call that begins. *)

LEMMA OpenedIs ==
    ASSUME PluginTypeOK, NEW f \in File
    PROVE  /\ Opened(f) \in Lib \cup {Bad}
           /\ image[f] # Absent => Opened(f) = image[f]
           /\ Opened(f) \in Lib => Opened(f) \in {image[f], dir[f]}
BY CallTypes, NamesAre DEF Opened, Content

LEMMA ImagesAre ==
    ASSUME PluginTypeOK, NEW f \in File, NEW i \in Images(f)
    PROVE  /\ i \in Lib \cup {Bad, Absent}
           /\ Opened(f) # Bad => i = Opened(f)
           /\ i = image[f] \/ i = Opened(f)
<1>1. Opened(f) \in Lib \cup {Bad} /\ image[f] \in Lib \cup {Bad, Absent} /\ Bad \notin Lib
  BY OpenedIs, CallTypes, NamesAre DEF Content
<1>2. CASE Opened(f) \in Lib
  BY <1>1, <1>2 DEF Images
<1>3. CASE Opened(f) = Bad
  BY <1>1, <1>3 DEF Images
<1> QED
  BY <1>1, <1>2, <1>3

\* What becomes of the record of a call when its library is recorded.
LEMMA RecordedCall ==
    ASSUME PluginInv, NEW c \in Proc, Record(c)
    PROVE  /\ call' \in [Proc -> CallRec]
           /\ \A d \in Proc : d # c => call'[d] = call[d]
           /\ call'[c].files = call[c].files
           /\ \/ /\ call'[c].pc = "next" /\ call'[c].base = call[c].base
                 /\ call[c].files # {} /\ c = Booter
              \/ /\ call'[c].pc = IF c = Booter THEN "done" ELSE "idle"
                 /\ call'[c].base = Absent /\ call[c].files = {}
<1> USE DEF PluginInv
<1>1. call \in [Proc -> CallRec] /\ call[c].pc = "open" /\ call[c] \in CallRec
  BY CallTypes DEF Record
<1> DEFINE n == [call[c] EXCEPT !.pc = "next"]
           r == IF call[c].files # {} THEN n
                ELSE IF c = Booter THEN [Rest EXCEPT !.pc = "done"] ELSE Rest
<1>2. /\ n \in CallRec /\ n.pc = "next" /\ n.base = call[c].base /\ n.files = call[c].files
  BY <1>1 DEF CallRec
<1>3. c \in Caller => call[c].files = {}
  BY <1>1 DEF Calls
<1>4. call' = [call EXCEPT ![c] = r]
  BY <1>1 DEF Record
<1> HIDE DEF n
<1>5. /\ r \in CallRec /\ r.files = call[c].files
      /\ \/ /\ r.pc = "next" /\ r.base = call[c].base /\ call[c].files # {} /\ c = Booter
         \/ /\ r.pc = IF c = Booter THEN "done" ELSE "idle"
            /\ r.base = Absent /\ call[c].files = {}
  BY <1>2, <1>3, RestIs, NamesAre
<1> HIDE DEF r
<1>6. /\ call' \in [Proc -> CallRec] /\ call'[c] = r
      /\ \A d \in Proc : d # c => call'[d] = call[d]
  BY <1>1, <1>4, <1>5, CallMoves
<1> QED
  BY <1>5, <1>6

LEMMA RecordHolds ==
    ASSUME PluginInv, NEW c \in Proc, Record(c)
    PROVE  PluginInv'
<1> USE DEF PluginInv
<1> DEFINE f == call[c].file
           b == BaseOf[f]
           o == Opened(f)
<1>1. /\ call[c].pc = "open" /\ UNCHANGED <<dir, mixed>>
      /\ plugins' = [plugins EXCEPT ![b] = [file |-> f, lib |-> o]]
  BY DEF Record
<1>2. f \in File /\ call[c].base = b /\ b \in Base
  BY <1>1, NamesAre DEF Calls
<1>i. PICK i \in Images(f) : image' = [image EXCEPT ![f] = i]
  BY DEF Record
<1>3. /\ o \in Lib \cup {Bad} /\ i \in Lib \cup {Bad, Absent} /\ (o # Bad => i = o)
      /\ image[f] # Absent => o = image[f]
  BY <1>2, OpenedIs, ImagesAre
<1> HIDE DEF f, b, o
<1>4. /\ call' \in [Proc -> CallRec]
      /\ \A d \in Proc : d # c => call'[d] = call[d]
      /\ call'[c].files = call[c].files
      /\ \/ /\ call'[c].pc = "next" /\ call'[c].base = call[c].base
            /\ call[c].files # {} /\ c = Booter
         \/ /\ call'[c].pc = IF c = Booter THEN "done" ELSE "idle"
            /\ call'[c].base = Absent /\ call[c].files = {}
  BY RecordedCall
<1>5. /\ image' \in [File -> Content \cup {Absent}]
      /\ \A g \in File : g # f => image'[g] = image[g]
      /\ o # Bad => image'[f] = o
  BY <1>2, <1>i, <1>3, CallTypes DEF Content
<1>6. /\ plugins' \in [Base -> [file : File, lib : Content] \cup {Absent}]
      /\ \A e \in Base : e # b => plugins'[e] = plugins[e]
      /\ plugins'[b].file = f /\ plugins'[b].lib = o
  BY <1>1, <1>2, <1>3, CallTypes DEF Content
<1>7. PluginTypeOK'
  BY <1>1, <1>4, <1>5, <1>6, CallTypes DEF PluginTypeOK, CallRec
<1>8. Calls'
  <2> SUFFICES ASSUME NEW d \in Proc
        PROVE  /\ call'[d].pc \in {"idle", "done"} => call'[d].base = Absent /\ call'[d].files = {}
               /\ call'[d].pc = "open" => /\ call'[d].file \in File
                                          /\ call'[d].base = BaseOf[call'[d].file]
               /\ call'[d].pc = "unlink" => call'[d].base \in Base
               /\ d \in Caller =>
                     /\ call'[d].pc # "done"
                     /\ call'[d].pc = "next" => \E g \in File : /\ call'[d].files = {g}
                                                                /\ call'[d].base = BaseOf[g]
                     /\ call'[d].pc \in {"open", "unlink"} => call'[d].files = {}
               /\ d = Booter => call'[d].pc # "unlink"
    BY DEF Calls
  <2>1. CASE d = c
    BY <1>4, <2>1, NamesAre
  <2>2. CASE d # c
    BY <1>4, <2>2 DEF Calls
  <2> QED
    BY <2>1, <2>2
<1>9. Overlaps'
  <2>1. \A d \in Proc : call'[d].base \in Base => call'[d].base = call[d].base
    BY <1>4, NamesAre
  <2> QED
    BY <1>1, <2>1 DEF Overlaps
<1>10. Loading'
  <2>1. \A d \in Proc : /\ call'[d].files = call[d].files
                        /\ call'[d].pc = "open" => call'[d] = call[d]
    BY <1>4
  <2> QED
    BY <1>1, <2>1 DEF Loading
<1>11. Entries'
  <2>1. ASSUME NEW e \in Base, e \notin mixed', plugins'[e] # Absent
        PROVE  /\ plugins'[e].file \in OnDisk(e)'
               /\ plugins'[e].lib # Bad => plugins'[e].lib = image'[plugins'[e].file]
    <3>1. OnDisk(e)' = OnDisk(e) /\ e \notin mixed
      BY <1>1, <2>1 DEF OnDisk
    <3>2. CASE e = b
      <4>1. dir[f] # Absent
        BY <1>1, <1>2, <3>1, <3>2 DEF Loading, f
      <4>2. f \in OnDisk(e)
        BY <1>2, <3>2, <4>1 DEF OnDisk, b
      <4> QED
        BY <1>5, <1>6, <3>1, <3>2, <4>2
    <3>3. CASE e # b
      <4>1. /\ plugins[e].file \in OnDisk(e)
            /\ plugins[e].lib # Bad => plugins[e].lib = image[plugins[e].file]
        BY <1>6, <2>1, <3>1, <3>3 DEF Entries
      <4>2. plugins[e].file \in File /\ plugins[e].file # f
        BY <3>3, <4>1 DEF OnDisk, b
      <4> QED
        BY <1>5, <1>6, <3>1, <3>3, <4>1, <4>2
    <3> QED
      BY <3>2, <3>3
  <2>2. ASSUME NEW d \in Proc, call'[d].pc = "unlink", call'[d].base \notin mixed'
        PROVE  plugins'[call'[d].base] = Absent
    <3>1. d # c /\ call'[d] = call[d]
      BY <1>4, <2>2
    <3>2. call[d].base \in Base /\ call[d].base \notin mixed /\ plugins[call[d].base] = Absent
      BY <1>1, <2>2, <3>1 DEF Calls, Entries
    <3>3. call[d].base # b
      BY <1>2, <3>1, <3>2 DEF Overlaps
    <3> QED
      BY <1>6, <3>1, <3>2, <3>3
  <2> QED
    BY <2>1, <2>2 DEF Entries
<1> QED
  BY <1>7, <1>8, <1>9, <1>10, <1>11

\* The first file there is of a base name is a file of that name.
LEMMA FirstFileIs ==
    ASSUME NEW b \in Base
    PROVE  LET i == SelectInSeq(Exts[b], LAMBDA f : dir[f] # Absent)
           IN  i # 0 => Exts[b][i] \in File /\ BaseOf[Exts[b][i]] = b
<1> DEFINE I == {k \in 1 .. Len(Exts[b]) : dir[Exts[b][k]] # Absent}
           i == SelectInSeq(Exts[b], LAMBDA f : dir[f] # Absent)
<1>1. Exts[b] \in Seq(File)
  BY NamesAre
<1>2. Len(Exts[b]) \in Nat /\ DOMAIN Exts[b] = 1 .. Len(Exts[b])
  BY <1>1, LenProperties
<1>3. I \in SUBSET Nat
  BY <1>2
<1>4. I # {} => Min(I) \in I
  BY <1>3, LeastIsThere DEF Min
<1>5. i = IF I # {} THEN Min(I) ELSE 0
  BY DEF SelectInSeq
<1>6. i # 0 => i \in DOMAIN Exts[b]
  BY <1>2, <1>4, <1>5
<1>7. i # 0 => Exts[b][i] \in ToSet(Exts[b])
  BY <1>6 DEF ToSet
<1> QED
  BY <1>7, NamesAre

LEMMA UnlinkHolds ==
    ASSUME PluginInv, Sole, NEW c \in Proc, Unlink(c)
    PROVE  PluginInv'
<1> USE DEF PluginInv
<1> DEFINE b == call[c].base
           i == SelectInSeq(Exts[b], LAMBDA f : dir[f] # Absent)
<1>1. /\ call[c].pc = "unlink" /\ UNCHANGED <<image, plugins, mixed>>
      /\ dir' = [f \in File |-> IF i # 0 /\ f = Exts[b][i] THEN Absent ELSE dir[f]]
      /\ call' = [call EXCEPT ![c] = Rest]
  BY DEF Unlink
<1>2. b \in Base /\ c \in Caller /\ call[c].files = {}
  BY <1>1, NamesAre DEF Calls
<1>3. i # 0 => Exts[b][i] \in File /\ BaseOf[Exts[b][i]] = b
  BY <1>2, FirstFileIs
<1> HIDE DEF b, i
<1>4. /\ dir' \in [File -> Content \cup {Absent}]
      /\ \A f \in File : BaseOf[f] # b => dir'[f] = dir[f]
  BY <1>1, <1>3, CallTypes
<1>5. /\ call' \in [Proc -> CallRec] /\ call'[c] = Rest
      /\ \A d \in Proc : d # c => call'[d] = call[d]
  BY <1>1, RestIs, CallTypes, CallMoves
<1>6. PluginTypeOK'
  BY <1>1, <1>4, <1>5, CallTypes DEF PluginTypeOK, CallRec
<1>7. Calls'
  <2> SUFFICES ASSUME NEW d \in Proc
        PROVE  /\ call'[d].pc \in {"idle", "done"} => call'[d].base = Absent /\ call'[d].files = {}
               /\ call'[d].pc = "open" => /\ call'[d].file \in File
                                          /\ call'[d].base = BaseOf[call'[d].file]
               /\ call'[d].pc = "unlink" => call'[d].base \in Base
               /\ d \in Caller =>
                     /\ call'[d].pc # "done"
                     /\ call'[d].pc = "next" => \E g \in File : /\ call'[d].files = {g}
                                                                /\ call'[d].base = BaseOf[g]
                     /\ call'[d].pc \in {"open", "unlink"} => call'[d].files = {}
               /\ d = Booter => call'[d].pc # "unlink"
    BY DEF Calls
  <2>1. CASE d = c
    BY <1>5, <2>1, RestIs
  <2>2. CASE d # c
    BY <1>5, <2>2 DEF Calls
  <2> QED
    BY <2>1, <2>2
<1>8. Overlaps'
  <2>1. \A d \in Proc : call'[d].base \in Base => call'[d].base = call[d].base
    BY <1>5, RestIs, NamesAre
  <2> QED
    BY <1>1, <2>1 DEF Overlaps
<1>9. ASSUME NEW d \in Proc, d # c, call[d].base = b
      PROVE  b \in mixed
  BY <1>2, <1>9 DEF Overlaps, b
<1>10. call[Booter].files = {} /\ call[Booter].pc # "open"
  BY <1>1, <1>2, NamesAre DEF Sole, Calls
<1>11. Loading'
  <2> SUFFICES ASSUME NEW d \in Proc
        PROVE  /\ \A g \in call'[d].files : BaseOf[g] \notin mixed' => dir'[g] # Absent
               /\ call'[d].pc = "open" /\ call'[d].base \notin mixed' => dir'[call'[d].file] # Absent
    BY DEF Loading
  <2>1. CASE d = c
    BY <1>5, <2>1, RestIs
  <2>2. CASE d # c /\ d \notin Caller
    BY <1>5, <1>10, <2>2, NamesAre
  <2>3. CASE d # c /\ d \in Caller
    <3>1. call'[d] = call[d] /\ mixed' = mixed
      BY <1>1, <1>5, <2>3
    <3>2. ASSUME NEW g \in call[d].files, BaseOf[g] \notin mixed PROVE dir'[g] # Absent
      <4>1. call[d].pc = "next"
        BY <2>3, <3>2, CallTypes, CallFields DEF Calls
      <4>2. g \in File /\ BaseOf[g] = call[d].base
        BY <2>3, <3>2, <4>1 DEF Calls
      <4>3. BaseOf[g] # b
        BY <1>9, <2>3, <3>2, <4>2
      <4>4. dir[g] # Absent
        BY <3>2 DEF Loading
      <4> QED
        BY <1>4, <4>2, <4>3, <4>4
    <3>3. ASSUME call[d].pc = "open", call[d].base \notin mixed PROVE dir'[call[d].file] # Absent
      <4>1. call[d].file \in File /\ BaseOf[call[d].file] = call[d].base
        BY <3>3 DEF Calls
      <4>2. BaseOf[call[d].file] # b
        BY <1>9, <2>3, <3>3, <4>1
      <4>3. dir[call[d].file] # Absent
        BY <3>3 DEF Loading
      <4> QED
        BY <1>4, <4>1, <4>2, <4>3
    <3> QED
      BY <3>1, <3>2, <3>3
  <2> QED
    BY <2>1, <2>2, <2>3
<1>12. Entries'
  <2>1. b \notin mixed => plugins[b] = Absent
    BY <1>1 DEF Entries, b
  <2>2. ASSUME NEW e \in Base, e \notin mixed', plugins'[e] # Absent
        PROVE  /\ plugins'[e].file \in OnDisk(e)'
               /\ plugins'[e].lib # Bad => plugins'[e].lib = image'[plugins'[e].file]
    <3>1. e # b /\ e \notin mixed /\ plugins[e] # Absent
      BY <1>1, <2>1, <2>2
    <3>2. /\ plugins[e].file \in OnDisk(e)
          /\ plugins[e].lib # Bad => plugins[e].lib = image[plugins[e].file]
      BY <3>1 DEF Entries
    <3>3. plugins[e].file \in OnDisk(e)'
      BY <1>4, <3>1, <3>2 DEF OnDisk
    <3> QED
      BY <1>1, <3>2, <3>3
  <2>3. ASSUME NEW d \in Proc, call'[d].pc = "unlink", call'[d].base \notin mixed'
        PROVE  plugins'[call'[d].base] = Absent
    BY <1>1, <1>5, <2>3, RestIs DEF Entries
  <2> QED
    BY <2>2, <2>3 DEF Entries
<1> QED
  BY <1>6, <1>7, <1>8, <1>11, <1>12

-----------------------------------------------------------------------------
(* Calls that begin *)

LEMMA BeginIs ==
    ASSUME PluginInv, NEW c \in Proc, NEW r \in CallRec, Begin(c, r)
    PROVE  /\ call[c].pc = "idle" /\ call' \in [Proc -> CallRec] /\ call'[c] = r
           /\ \A d \in Proc : d # c => call'[d] = call[d]
           /\ mixed \subseteq mixed' /\ mixed' \subseteq Base
           /\ r.base = Absent => mixed' = mixed
           /\ Overlaps'
<1> USE DEF PluginInv
<1>1. /\ call[c].pc = "idle" /\ call' = [call EXCEPT ![c] = r]
      /\ mixed' = mixed \cup {b \in {r.base} \cap Base : \E d \in Proc : call[d].base = b}
  BY DEF Begin
<1>2. /\ call' \in [Proc -> CallRec] /\ call'[c] = r
      /\ \A d \in Proc : d # c => call'[d] = call[d]
  BY <1>1, CallTypes, CallMoves
<1>3. mixed \subseteq mixed' /\ mixed' \subseteq Base
  BY <1>1, CallTypes
<1>4. r.base = Absent => mixed' = mixed
  BY <1>1, NamesAre
<1>5. ASSUME NEW d \in Proc, d # c, call[d].base = r.base, r.base \in Base
      PROVE  r.base \in mixed'
  BY <1>1, <1>5
<1>6. Overlaps'
  BY <1>2, <1>3, <1>5 DEF Overlaps
<1> QED
  BY <1>1, <1>2, <1>3, <1>4, <1>6

LEMMA SaveUploadHolds ==
    ASSUME PluginInv, NEW c \in Caller, NEW f \in File, NEW l \in Content, SaveUpload(c, f, l)
    PROVE  PluginInv'
<1> USE DEF PluginInv
<1> DEFINE r == [Rest EXCEPT !.pc = "next", !.base = BaseOf[f], !.files = {f}]
<1>1. /\ Begin(c, r) /\ dir' = [dir EXCEPT ![f] = l] /\ UNCHANGED <<image, plugins>>
  BY DEF SaveUpload
<1>2. BaseOf[f] \in Base /\ {f} \subseteq File /\ c \in Proc /\ c # Booter
  BY NamesAre
<1>3. r \in CallRec /\ r.pc = "next" /\ r.base = BaseOf[f] /\ r.files = {f}
  BY <1>2 DEF Rest, CallRec
<1> HIDE DEF r
<1>4. /\ call[c].pc = "idle" /\ call' \in [Proc -> CallRec] /\ call'[c] = r
      /\ \A d \in Proc : d # c => call'[d] = call[d]
      /\ mixed \subseteq mixed' /\ mixed' \subseteq Base /\ Overlaps'
  BY <1>1, <1>2, <1>3, BeginIs
<1>5. /\ dir' \in [File -> Content \cup {Absent}] /\ l # Absent /\ dir'[f] = l
      /\ \A g \in File : dir[g] # Absent => dir'[g] # Absent
  BY <1>1, CallTypes, NamesAre DEF Content
<1>6. PluginTypeOK'
  BY <1>1, <1>4, <1>5, CallTypes DEF PluginTypeOK, CallRec
<1>7. Calls'
  BY <1>2, <1>3, <1>4 DEF Calls
<1>8. Loading'
  <2> SUFFICES ASSUME NEW d \in Proc
        PROVE  /\ \A g \in call'[d].files : BaseOf[g] \notin mixed' => dir'[g] # Absent
               /\ call'[d].pc = "open" /\ call'[d].base \notin mixed' => dir'[call'[d].file] # Absent
    BY DEF Loading
  <2>1. CASE d = c
    BY <1>3, <1>4, <1>5, <2>1
  <2>2. CASE d # c
    <3>1. call'[d] = call[d] /\ call[d].files \subseteq File
      BY <1>4, <2>2, CallTypes, CallFields
    <3>2. call[d].pc = "open" => call[d].file \in File
      BY DEF Calls
    <3> QED
      BY <1>4, <1>5, <3>1, <3>2 DEF Loading
  <2> QED
    BY <2>1, <2>2
<1>9. Entries'
  <2>1. \A d \in Proc : call'[d].pc = "unlink" => call'[d].base \in Base /\ call'[d] = call[d]
    BY <1>3, <1>4 DEF Calls
  <2>2. /\ plugins' \in [Base -> [file : File, lib : Content] \cup {Absent}]
        /\ \A e \in Base : plugins'[e] \in {Absent, plugins[e]}
    BY <1>1, CallTypes
  <2> QED
    BY <1>1, <1>4, <1>5, <2>1, <2>2, EntriesStay
<1> QED
  BY <1>4, <1>6, <1>7, <1>8, <1>9

LEMMA UploadFailsHolds ==
    ASSUME PluginInv, NEW c \in Caller, NEW f \in File, UploadFails(c, f)
    PROVE  PluginInv'
<1> USE DEF PluginInv
<1>1. dir' = [dir EXCEPT ![f] = Bad] /\ UNCHANGED <<image, plugins, call, mixed>>
  BY DEF UploadFails
<1>2. /\ dir' \in [File -> Content \cup {Absent}]
      /\ \A g \in File : dir[g] # Absent => dir'[g] # Absent
  BY <1>1, CallTypes, NamesAre DEF Content
<1>3. PluginTypeOK'
  BY <1>1, <1>2, CallTypes DEF PluginTypeOK, CallRec
<1>4. Calls' /\ Overlaps'
  BY <1>1 DEF Calls, Overlaps
<1>5. Loading'
  <2>1. \A d \in Proc : /\ call[d].files \subseteq File
                        /\ call[d].pc = "open" => call[d].file \in File
    BY CallTypes, CallFields DEF Calls
  <2> QED
    BY <1>1, <1>2, <2>1 DEF Loading
<1>6. Entries'
  <2>1. \A d \in Proc : call'[d].pc = "unlink" => call'[d].base \in Base /\ call'[d] = call[d]
    BY <1>1 DEF Calls
  <2>2. /\ plugins' \in [Base -> [file : File, lib : Content] \cup {Absent}]
        /\ \A e \in Base : plugins'[e] \in {Absent, plugins[e]}
        /\ mixed \subseteq mixed' /\ mixed' \subseteq Base
    BY <1>1, CallTypes
  <2> QED
    BY <1>1, <1>2, <2>1, <2>2, EntriesStay
<1> QED
  BY <1>3, <1>4, <1>5, <1>6

LEMMA RemoveEntryHolds ==
    ASSUME PluginInv, NEW c \in Caller, NEW b \in Base, RemoveEntry(c, b)
    PROVE  PluginInv'
<1> USE DEF PluginInv
<1> DEFINE r == [Rest EXCEPT !.pc = "unlink", !.base = b]
<1>1. /\ Begin(c, r) /\ plugins' = [plugins EXCEPT ![b] = Absent] /\ UNCHANGED <<dir, image>>
  BY DEF RemoveEntry
<1>2. c \in Proc /\ c # Booter
  BY NamesAre
<1>3. r \in CallRec /\ r.pc = "unlink" /\ r.base = b /\ r.files = {}
  BY DEF Rest, CallRec
<1> HIDE DEF r
<1>4. /\ call[c].pc = "idle" /\ call' \in [Proc -> CallRec] /\ call'[c] = r
      /\ \A d \in Proc : d # c => call'[d] = call[d]
      /\ mixed \subseteq mixed' /\ mixed' \subseteq Base /\ Overlaps'
  BY <1>1, <1>2, <1>3, BeginIs
<1>5. /\ plugins' \in [Base -> [file : File, lib : Content] \cup {Absent}]
      /\ \A e \in Base : plugins'[e] \in {Absent, plugins[e]}
      /\ plugins'[b] = Absent
  BY <1>1, CallTypes
<1>6. PluginTypeOK'
  BY <1>1, <1>4, <1>5, CallTypes DEF PluginTypeOK, CallRec
<1>7. Calls'
  BY <1>2, <1>3, <1>4 DEF Calls
<1>8. Loading'
  BY <1>1, <1>3, <1>4 DEF Loading
<1>9. Entries'
  <2>1. \A d \in Proc : call'[d].pc = "unlink" =>
           /\ call'[d].base \in Base
           /\ plugins'[call'[d].base] = Absent \/ call'[d] = call[d]
    BY <1>3, <1>4, <1>5 DEF Calls
  <2> QED
    BY <1>1, <1>4, <1>5, <2>1, EntriesStay
<1> QED
  BY <1>4, <1>6, <1>7, <1>8, <1>9

\* LoadAll begins before there are any calls.
LEMMA LoadAllIs ==
    ASSUME PluginInv, LoadAll
    PROVE  /\ UNCHANGED <<dir, image, plugins, mixed>>
           /\ call' \in [Proc -> CallRec] /\ call[Booter].pc = "idle"
           /\ \A d \in Proc : d # Booter => call'[d] = call[d]
           /\ call'[Booter].pc \in {"next", "done"} /\ call'[Booter].base = Absent
           /\ call'[Booter].pc = "done" => call'[Booter].files = {}
           /\ call'[Booter].files = Scan
           /\ Overlaps'
<1> DEFINE p == IF Scan = {} THEN "done" ELSE "next"
           r == [Rest EXCEPT !.files = Scan, !.pc = p]
<1>1. Begin(Booter, r) /\ UNCHANGED <<dir, image, plugins>>
  BY DEF LoadAll
<1>2. p \in {"next", "done"} /\ (p = "done" => Scan = {}) /\ Scan \in SUBSET File
  BY DEF Scan
<1> HIDE DEF p
<1>3. r \in CallRec /\ r.pc = p /\ r.base = Absent /\ r.files = Scan
  BY <1>2 DEF Rest, CallRec
<1> HIDE DEF r
<1> QED
  BY <1>1, <1>2, <1>3, BeginIs, NamesAre

LEMMA LoadAllHolds == PluginInv /\ LoadAll => PluginInv'
<1> SUFFICES ASSUME PluginInv, LoadAll PROVE PluginInv'
  OBVIOUS
<1> USE DEF PluginInv
<1>1. /\ UNCHANGED <<dir, image, plugins, mixed>> /\ call' \in [Proc -> CallRec]
      /\ \A d \in Proc : d # Booter => call'[d] = call[d]
      /\ call'[Booter].pc \in {"next", "done"} /\ call'[Booter].base = Absent
      /\ call'[Booter].pc = "done" => call'[Booter].files = {}
      /\ call'[Booter].files = Scan /\ Overlaps'
  BY LoadAllIs
<1>2. PluginTypeOK'
  BY <1>1, CallTypes DEF PluginTypeOK, CallRec
<1>3. Calls'
  <2> SUFFICES ASSUME NEW d \in Proc
        PROVE  /\ call'[d].pc \in {"idle", "done"} => call'[d].base = Absent /\ call'[d].files = {}
               /\ call'[d].pc = "open" => /\ call'[d].file \in File
                                          /\ call'[d].base = BaseOf[call'[d].file]
               /\ call'[d].pc = "unlink" => call'[d].base \in Base
               /\ d \in Caller =>
                     /\ call'[d].pc # "done"
                     /\ call'[d].pc = "next" => \E g \in File : /\ call'[d].files = {g}
                                                                /\ call'[d].base = BaseOf[g]
                     /\ call'[d].pc \in {"open", "unlink"} => call'[d].files = {}
               /\ d = Booter => call'[d].pc # "unlink"
    BY DEF Calls
  <2>1. CASE d = Booter
    BY <1>1, <2>1, NamesAre
  <2>2. CASE d # Booter
    BY <1>1, <2>2 DEF Calls
  <2> QED
    BY <2>1, <2>2
<1>4. Loading'
  BY <1>1, NamesAre DEF Loading, Scan
<1>5. Entries'
  <2>1. \A d \in Proc : call'[d].pc = "unlink" => call'[d].base \in Base /\ call'[d] = call[d]
    BY <1>1, <1>3 DEF Calls
  <2>2. \A b \in Base : plugins'[b] = plugins[b] /\ OnDisk(b)' = OnDisk(b)
    BY <1>1 DEF OnDisk
  <2> QED
    BY <1>1, <2>1, <2>2 DEF Entries
<1> QED
  BY <1>1, <1>2, <1>3, <1>4, <1>5

\* All that a process has but the directory is as at its start.
Reset == /\ image = [f \in File |-> Absent] /\ plugins = [b \in Base |-> Absent]
         /\ call = [c \in Proc |-> Rest] /\ mixed = {}

LEMMA ResetHolds ==
    ASSUME Reset, dir \in [File -> Content \cup {Absent}]
    PROVE  PluginInv
<1>1. /\ \A f \in File : image[f] = Absent
      /\ \A b \in Base : plugins[b] = Absent
      /\ \A c \in Proc : call[c] = Rest
      /\ mixed = {}
  BY DEF Reset
<1>2. PluginTypeOK
  BY RestIs, CallTypes DEF Reset
<1>3. Calls
  BY <1>1, RestIs DEF Calls
<1>4. Overlaps
  BY <1>1, RestIs, NamesAre DEF Overlaps
<1>5. Loading /\ Entries
  BY <1>1, RestIs DEF Loading, Entries
<1> QED
  BY <1>2, <1>3, <1>4, <1>5 DEF PluginInv

-----------------------------------------------------------------------------
(* The steps of the process *)

\* The process serves or stops.
Late == run \notin {"down", "plugins", "register"}

LEMMA BootTypes == BootTypeOK <=> /\ PluginTypeOK
              /\ run \in {"down", "plugins", "register", "serve", "drain", "close"}
              /\ todo \subseteq Base /\ registry \subseteq Base
              /\ streams \in 0 .. MaxStreams
BY DEF BootTypeOK

LEMMA SoleIs == Alone => Sole
BY DEF Alone, Sole

\* Once the process serves, only types and calls matter.
LEMMA LateHolds ==
    ASSUME PluginInv', Late', todo' \subseteq Base, registry' \subseteq Base,
           streams' \in 0 .. MaxStreams, run' \in {"serve", "drain", "close"},
           call'[Booter].pc \in {"idle", "done"}
    PROVE  BootInv'
BY DEF BootInv, BootTypeOK, PluginInv, Alone, Loaded, Registering, Late

\* The record of a call is of this shape whenever the plugins rest.
LEMMA PluginsRest == PluginInv /\ UNCHANGED pvars => PluginInv'
BY DEF PluginInv, pvars, PluginTypeOK, Calls, Overlaps, Loading, Entries, OnDisk

LEMMA StartRunHolds == BootInv /\ StartRun => BootInv'
<1> SUFFICES ASSUME BootInv, StartRun PROVE BootInv'
  OBVIOUS
<1> USE DEF BootInv
<1>1. /\ run = "down" /\ registry' = Builtin /\ UNCHANGED <<todo, streams>>
      /\ Builtin \subseteq Base
  BY BootAssumption DEF StartRun
<1>2. /\ \A f \in File : image[f] = Absent
      /\ \A b \in Base : plugins[b] = Absent
      /\ todo = {} /\ call[Booter].pc = "idle" /\ mixed = {}
      /\ \A c \in Caller : call[c].pc = "idle"
  BY <1>1 DEF Loaded, Registering, Alone
<1>3. todo' \subseteq Base /\ registry' \subseteq Base /\ streams' \in 0 .. MaxStreams
  BY <1>1, <1>2 DEF BootTypeOK
<1>4. CASE LoadAll /\ run' = "plugins"
  <2>1. PluginInv'
    BY <1>4, LoadAllHolds
  <2>2. /\ UNCHANGED <<dir, image, plugins, mixed>>
        /\ \A d \in Proc : d # Booter => call'[d] = call[d]
        /\ call'[Booter].pc \in {"next", "done"}
        /\ call'[Booter].files = Scan
    BY <1>4, LoadAllIs
  <2>3. Alone'
    BY <1>2, <1>4, <2>2, NamesAre DEF Alone
  <2>4. Loaded'
    BY <1>2, <1>4, <2>2 DEF Loaded, Scan
  <2>5. Registering'
    BY <1>1, <1>2, <1>4 DEF Registering
  <2> QED
    BY <1>3, <1>4, <2>1, <2>3, <2>4, <2>5 DEF BootTypeOK, PluginInv
<1>5. CASE run' = "register" /\ UNCHANGED pvars
  <2>1. PluginInv'
    BY <1>5, PluginsRest
  <2>2. Alone'
    BY <1>2, <1>5 DEF Alone, pvars
  <2>3. Loaded'
    BY <1>2, <1>5 DEF Loaded, pvars
  <2>4. Registering'
    BY <1>1, <1>2, <1>5 DEF Registering, pvars
  <2> QED
    BY <1>3, <1>5, <2>1, <2>2, <2>3, <2>4 DEF BootTypeOK, PluginInv
<1> QED
  BY <1>4, <1>5 DEF StartRun

LEMMA SnapshotHolds == BootInv /\ Snapshot => BootInv'
<1> SUFFICES ASSUME BootInv, Snapshot PROVE BootInv'
  OBVIOUS
<1> USE DEF BootInv
<1>1. /\ run = "plugins" /\ call[Booter].pc = "done" /\ todo' = Connectors
      /\ run' = "register" /\ UNCHANGED <<pvars, registry, streams>> /\ registry = Builtin
  BY DEF Snapshot, Registering
<1>2. PluginInv'
  BY <1>1, PluginsRest
<1>3. UNCHANGED <<dir, image, plugins, call, mixed>> /\ Connectors' = Connectors
  BY <1>1 DEF pvars, Connectors
<1>4. Alone'
  BY <1>1, <1>3 DEF Alone
<1>5. Loaded'
  BY <1>1, <1>3 DEF Loaded, OnDisk, Scan
<1>6. Registering'
  BY <1>1, <1>3 DEF Registering
<1> QED
  BY <1>1, <1>2, <1>4, <1>5, <1>6 DEF BootTypeOK, PluginInv, Connectors

LEMMA RegisterHolds == BootInv /\ Register => BootInv'
<1> SUFFICES ASSUME BootInv, Register PROVE BootInv'
  OBVIOUS
<1> USE DEF BootInv
<1>1. PICK b \in todo : /\ b \notin registry /\ registry' = registry \cup {b}
                        /\ todo' = todo \ {b}
  BY DEF Register
<1>2. run = "register" /\ UNCHANGED <<pvars, run, streams>>
  BY DEF Register
<1>3. PluginInv'
  BY <1>2, PluginsRest
<1>4. UNCHANGED <<dir, image, plugins, call, mixed>> /\ Connectors' = Connectors
  BY <1>2 DEF pvars, Connectors
<1>5. Alone'
  BY <1>2, <1>4 DEF Alone
<1>6. Loaded'
  BY <1>2, <1>4 DEF Loaded, OnDisk, Scan
<1>7. Registering'
  BY <1>1, <1>2, <1>4 DEF Registering
<1>8. todo' \subseteq Base /\ registry' \subseteq Base
  BY <1>1 DEF BootTypeOK
<1> QED
  BY <1>2, <1>3, <1>5, <1>6, <1>7, <1>8 DEF BootTypeOK, PluginInv

\* A process that is down has nothing but its directory.
OnlyDir == /\ Reset /\ dir \in [File -> Content \cup {Absent}]
           /\ run = "down" /\ todo = {} /\ registry = {} /\ streams = 0

LEMMA DownIsRest == OnlyDir => BootInv
<1> SUFFICES ASSUME OnlyDir PROVE BootInv
  OBVIOUS
<1> USE DEF OnlyDir
<1>1. PluginInv
  BY ResetHolds
<1>2. /\ \A f \in File : image[f] = Absent
      /\ \A b \in Base : plugins[b] = Absent
      /\ \A c \in Proc : call[c] = Rest
      /\ mixed = {}
  BY DEF Reset
<1>3. Alone
  BY <1>2, RestIs, NamesAre DEF Alone
<1>4. Loaded /\ Registering
  BY <1>2 DEF Loaded, Registering
<1>5. 0 \in 0 .. MaxStreams
  BY BootAssumption
<1> QED
  BY <1>1, <1>3, <1>4, <1>5 DEF BootInv, BootTypeOK, PluginInv

LEMMA EndHolds == BootInv /\ End => BootInv'
<1> SUFFICES ASSUME BootInv, End PROVE BootInv'
  OBVIOUS
<1>1. Reset' /\ dir' = dir
  BY DEF End, PluginReset, Reset
<1>2. dir \in [File -> Content \cup {Absent}]
  BY CallTypes DEF BootInv, PluginInv
<1>3. run' = "down" /\ todo' = {} /\ registry' = {} /\ streams' = 0
  BY DEF End
<1>4. OnlyDir'
  BY <1>1, <1>2, <1>3 DEF OnlyDir
<1> QED
  BY <1>4, DownIsRest, PTL

LEMMA ServeHolds == BootInv /\ Serve => BootInv'
<1> SUFFICES ASSUME BootInv, Serve PROVE BootInv'
  OBVIOUS
<1>1. /\ run = "register" /\ run' = "serve" /\ UNCHANGED <<pvars, todo, registry, streams>>
  BY DEF Serve
<1>2. call'[Booter].pc \in {"idle", "done"}
  BY <1>1 DEF BootInv, Alone, pvars
<1>3. PluginInv'
  BY <1>1, PluginsRest DEF BootInv
<1> QED
  BY <1>1, <1>2, <1>3, LateHolds DEF BootInv, BootTypeOK, Late

\* Streams open and close, a signal comes, and the server is shut down.
LEMMA StreamHolds == BootInv /\ (Connect \/ Disconnect) => BootInv'
<1> SUFFICES ASSUME BootInv, Connect \/ Disconnect PROVE BootInv'
  OBVIOUS
<1>1. UNCHANGED <<pvars, run, todo, registry>>
  BY DEF Connect, Disconnect
<1>2. streams' \in 0 .. MaxStreams
  BY BootAssumption DEF Connect, Disconnect, BootInv, BootTypeOK
<1>3. PluginInv'
  BY <1>1, PluginsRest DEF BootInv
<1>4. Alone' /\ Loaded' /\ Registering'
  BY <1>1 DEF BootInv, Alone, Loaded, Registering, pvars, OnDisk, Scan, Connectors
<1> QED
  BY <1>1, <1>2, <1>3, <1>4 DEF BootInv, BootTypeOK, PluginInv

LEMMA StopHolds == BootInv /\ (Signal \/ Drained) => BootInv'
<1> SUFFICES ASSUME BootInv, Signal \/ Drained PROVE BootInv'
  OBVIOUS
<1>1. /\ run \in {"serve", "drain"} /\ run' \in {"drain", "close"}
      /\ UNCHANGED <<pvars, todo, registry, streams>>
  BY DEF Signal, Drained
<1>2. call'[Booter].pc \in {"idle", "done"}
  BY <1>1 DEF BootInv, Alone, pvars
<1>3. PluginInv'
  BY <1>1, PluginsRest DEF BootInv
<1> QED
  BY <1>1, <1>2, <1>3, LateHolds DEF BootInv, BootTypeOK, Late

LEMMA BootRests == BootInv /\ UNCHANGED <<pvars, bvars>> => BootInv'
<1> SUFFICES ASSUME BootInv, UNCHANGED <<pvars, bvars>> PROVE BootInv'
  OBVIOUS
<1>1. PluginInv'
  BY PluginsRest DEF BootInv
<1>2. Alone' /\ Loaded' /\ Registering'
  BY DEF BootInv, Alone, Loaded, Registering, pvars, bvars, OnDisk, Scan, Connectors
<1> QED
  BY <1>1, <1>2 DEF BootInv, BootTypeOK, PluginInv, bvars

-----------------------------------------------------------------------------
(* Calls: LoadAll before the process serves, requests after *)

LEMMA WhoCalls ==
    ASSUME BootInv, NEW c \in Proc, call[c].pc \notin {"idle", "done"}
    PROVE  \/ c = Booter /\ run = "plugins"
           \/ c \in Caller /\ c # Booter /\ run \in {"serve", "drain", "close"}
BY NamesAre DEF BootInv, BootTypeOK, Alone

\* A call of a request: the process serves, or stops.
LEMMA RequestsGoOn ==
    ASSUME BootInv, NEW c \in Caller, UNCHANGED bvars, PluginInv',
           \A d \in Proc : d # c => call'[d] = call[d],
           run \in {"serve", "drain", "close"}
    PROVE  BootInv'
<1>1. call'[Booter] = call[Booter] /\ call[Booter].pc \in {"idle", "done"}
  BY NamesAre DEF BootInv, Alone
<1> QED
  BY <1>1, LateHolds DEF BootInv, BootTypeOK, Late, bvars

\* LoadAll: the next file.
LEMMA BooterForgets ==
    ASSUME BootInv, run = "plugins", Forget(Booter), UNCHANGED bvars, PluginInv'
    PROVE  BootInv'
<1> USE DEF BootInv
<1>1. PICK f \in call[Booter].files :
         /\ call[Booter].pc = "next"
         /\ plugins' = [plugins EXCEPT ![BaseOf[f]] = Absent]
         /\ call' = [call EXCEPT ![Booter] = [pc |-> "open", base |-> BaseOf[f], file |-> f,
                                    files |-> call[Booter].files \ {f}]]
         /\ UNCHANGED <<dir, image, mixed>>
  BY DEF Forget
<1>2. call \in [Proc -> CallRec] /\ Booter \in Proc
  BY CallTypes, NamesAre DEF PluginInv
<1>3. /\ call'[Booter].pc = "open" /\ call'[Booter].base = BaseOf[f]
      /\ call'[Booter].files = call[Booter].files \ {f}
      /\ \A d \in Caller : call'[d] = call[d]
  BY <1>1, <1>2, NamesAre
<1>4. \A b \in Base : plugins'[b] = IF b = BaseOf[f] THEN Absent ELSE plugins[b]
  BY <1>1, CallTypes DEF PluginInv
<1>5. Alone'
  BY <1>1, <1>3 DEF Alone, bvars
<1>6. Loaded'
  <2>1. ASSUME NEW b \in Base, plugins'[b] # Absent
        PROVE  plugins'[b].file \in OnDisk(b)' /\ plugins'[b].lib = dir'[plugins'[b].file]
    <3>1. plugins'[b] = plugins[b] /\ plugins[b] # Absent
      BY <1>4, <2>1
    <3>2. OnDisk(b)' = OnDisk(b)
      BY <1>1 DEF OnDisk
    <3> QED
      BY <1>1, <3>1, <3>2 DEF Loaded
  <2>2. ASSUME NEW g \in Scan'
        PROVE  \/ g \in call'[Booter].files
               \/ call'[Booter].pc = "open" /\ call'[Booter].base = BaseOf[g]
               \/ plugins'[BaseOf[g]] # Absent
    <3>1. g \in Scan /\ BaseOf[g] \in Base
      BY <1>1, NamesAre DEF Scan
    <3>2. g \in call[Booter].files \/ plugins[BaseOf[g]] # Absent
      BY <1>1, <3>1 DEF Loaded
    <3> QED
      BY <1>3, <1>4, <3>1, <3>2
  <2> QED
    BY <1>1, <2>1, <2>2 DEF Loaded, bvars
<1>7. Registering'
  BY DEF Registering, bvars
<1> QED
  BY <1>5, <1>6, <1>7 DEF BootTypeOK, PluginInv, bvars

\* LoadAll: the file's library, or its error.
LEMMA BooterRecords ==
    ASSUME BootInv, run = "plugins", Record(Booter), UNCHANGED bvars, PluginInv'
    PROVE  BootInv'
<1> USE DEF BootInv
<1> DEFINE f == call[Booter].file
           b == BaseOf[f]
           o == Opened(f)
<1>1. /\ call[Booter].pc = "open" /\ UNCHANGED <<dir, mixed>> /\ Booter \in Proc
      /\ plugins' = [plugins EXCEPT ![b] = [file |-> f, lib |-> o]]
  BY NamesAre DEF Record
<1>2. f \in File /\ call[Booter].base = b /\ b \in Base
  BY <1>1, NamesAre DEF Calls, PluginInv
<1>i. PICK i \in Images(f) : image' = [image EXCEPT ![f] = i]
  BY DEF Record
<1>j. i = image[f] \/ i = o
  BY <1>2, ImagesAre DEF PluginInv
<1>3. dir[f] # Absent
  BY <1>1, <1>2 DEF Loading, PluginInv, Alone
<1>4. image[f] \in {Absent, dir[f]}
  BY <1>2 DEF Loaded
<1>5. o = dir[f]
  BY <1>3, <1>4 DEF Opened
<1>6. /\ \A d \in Proc : d # Booter => call'[d] = call[d]
      /\ call'[Booter].files = call[Booter].files
      /\ call'[Booter].pc \in {"next", "done"}
  BY <1>1, RecordedCall
<1> HIDE DEF f, b, o
<1>7. \A g \in File : image'[g] \in {Absent, dir'[g]}
  BY <1>1, <1>i, <1>j, <1>2, <1>4, <1>5, CallTypes DEF Loaded, PluginInv
<1>8. \A e \in Base : plugins'[e] = IF e = b THEN [file |-> f, lib |-> o] ELSE plugins[e]
  BY <1>1, CallTypes DEF PluginInv
<1>9. Alone'
  BY <1>1, <1>6, NamesAre DEF Alone, bvars
<1>10. Loaded'
  <2>1. ASSUME NEW e \in Base, plugins'[e] # Absent
        PROVE  plugins'[e].file \in OnDisk(e)' /\ plugins'[e].lib = dir'[plugins'[e].file]
    <3>1. OnDisk(e)' = OnDisk(e)
      BY <1>1 DEF OnDisk
    <3>2. CASE e = b
      <4>1. plugins'[e].file = f /\ plugins'[e].lib = o
        BY <1>8, <3>2
      <4>2. f \in OnDisk(e)
        BY <1>2, <1>3, <3>2 DEF OnDisk, b
      <4> QED
        BY <1>1, <1>5, <3>1, <4>1, <4>2
    <3>3. CASE e # b
      <4>1. plugins'[e] = plugins[e]
        BY <1>8, <3>3
      <4> QED
        BY <1>1, <2>1, <3>1, <4>1 DEF Loaded
    <3> QED
      BY <3>2, <3>3
  <2>2. ASSUME NEW g \in Scan'
        PROVE  \/ g \in call'[Booter].files
               \/ plugins'[BaseOf[g]] # Absent
    <3>1. g \in Scan /\ BaseOf[g] \in Base
      BY <1>1, NamesAre DEF Scan
    <3>2. \/ g \in call[Booter].files
          \/ BaseOf[g] = b
          \/ plugins[BaseOf[g]] # Absent
      BY <1>1, <1>2, <3>1 DEF Loaded
    <3>3. BaseOf[g] = b => plugins'[BaseOf[g]] # Absent
      BY <1>2, <1>5, <1>3, <1>8, CallTypes, NamesAre DEF PluginInv, Content
    <3> QED
      BY <1>6, <1>8, <3>1, <3>2, <3>3
  <2> QED
    BY <1>7, <2>1, <2>2 DEF Loaded, bvars
<1>11. Registering'
  BY DEF Registering, bvars
<1> QED
  BY <1>9, <1>10, <1>11 DEF BootTypeOK, PluginInv, bvars

LEMMA CallStepHolds ==
    ASSUME BootInv, NEW c \in Proc, CallStep(c), UNCHANGED bvars
    PROVE  BootInv'
<1>1. PluginInv /\ Sole
  BY SoleIs DEF BootInv
<1>2. CASE Forget(c)
  <2>1. PluginInv' /\ call[c].pc = "next"
    BY <1>1, <1>2, ForgetHolds DEF Forget
  <2>2. CASE c = Booter /\ run = "plugins"
    BY <1>2, <2>1, <2>2, BooterForgets
  <2>3. CASE c \in Caller /\ run \in {"serve", "drain", "close"}
    <3>1. \A d \in Proc : d # c => call'[d] = call[d]
      BY <1>1, <1>2, CallTypes DEF Forget, PluginInv
    <3> QED
      BY <2>1, <2>3, <3>1, RequestsGoOn
  <2> QED
    BY <2>1, <2>2, <2>3, WhoCalls
<1>3. CASE Record(c)
  <2>1. PluginInv' /\ call[c].pc = "open"
    BY <1>1, <1>3, RecordHolds DEF Record
  <2>2. CASE c = Booter /\ run = "plugins"
    BY <1>3, <2>1, <2>2, BooterRecords
  <2>3. CASE c \in Caller /\ run \in {"serve", "drain", "close"}
    <3>1. \A d \in Proc : d # c => call'[d] = call[d]
      BY <1>1, <1>3, RecordedCall
    <3> QED
      BY <2>1, <2>3, <3>1, RequestsGoOn
  <2> QED
    BY <2>1, <2>2, <2>3, WhoCalls
<1>4. CASE Unlink(c)
  <2>1. PluginInv' /\ call[c].pc = "unlink"
    BY <1>1, <1>4, UnlinkHolds DEF Unlink
  <2>2. c # Booter
    BY <1>1, <2>1 DEF PluginInv, Calls
  <2>3. \A d \in Proc : d # c => call'[d] = call[d]
    BY <1>1, <1>4, CallTypes DEF Unlink, PluginInv
  <2> QED
    BY <2>1, <2>2, <2>3, WhoCalls, RequestsGoOn
<1> QED
  BY <1>2, <1>3, <1>4 DEF CallStep

LEMMA RequestHolds ==
    ASSUME BootInv, run = "serve", NEW c \in Caller, Request(c), UNCHANGED bvars
    PROVE  BootInv'
<1>1. PluginInv /\ c \in Proc
  BY NamesAre DEF BootInv
<1>2. CASE \E f \in File, l \in Content : SaveUpload(c, f, l)
  <2>1. PICK f \in File, l \in Content : SaveUpload(c, f, l)
    BY <1>2
  <2>2. PluginInv'
    BY <1>1, <2>1, SaveUploadHolds
  <2>3. \A d \in Proc : d # c => call'[d] = call[d]
    BY <1>1, <2>1, CallTypes DEF SaveUpload, Begin, PluginInv
  <2> QED
    BY <2>2, <2>3, RequestsGoOn
<1>3. CASE \E b \in Base : RemoveEntry(c, b)
  <2>1. PICK b \in Base : RemoveEntry(c, b)
    BY <1>3
  <2>2. PluginInv'
    BY <1>1, <2>1, RemoveEntryHolds
  <2>3. \A d \in Proc : d # c => call'[d] = call[d]
    BY <1>1, <2>1, CallTypes DEF RemoveEntry, Begin, PluginInv
  <2> QED
    BY <2>2, <2>3, RequestsGoOn
<1>4. CASE \E f \in File : UploadFails(c, f)
  <2>1. PICK f \in File : UploadFails(c, f)
    BY <1>4
  <2>2. PluginInv' /\ call' = call
    BY <1>1, <2>1, UploadFailsHolds DEF UploadFails
  <2> QED
    BY <2>2, RequestsGoOn
<1> QED
  BY <1>2, <1>3, <1>4 DEF Request

LEMMA BootStarts == BootInit => BootInv
<1> SUFFICES ASSUME BootInit PROVE BootInv
  OBVIOUS
<1>1. OnlyDir
  BY DEF BootInit, PluginInit, OnlyDir, Reset
<1> QED
  BY <1>1, DownIsRest

LEMMA BootGoesOn == BootInv /\ [BootNext]_<<pvars, bvars>> => BootInv'
<1> SUFFICES ASSUME BootInv, [BootNext]_<<pvars, bvars>> PROVE BootInv'
  OBVIOUS
<1>1. CASE StartRun
  BY <1>1, StartRunHolds
<1>2. CASE RunStep
  BY <1>2, SnapshotHolds, RegisterHolds, EndHolds, ServeHolds, StopHolds
     DEF RunStep, Panic, Close
<1>3. CASE Connect \/ Disconnect
  BY <1>3, StreamHolds
<1>4. CASE Signal
  BY <1>4, StopHolds
<1>5. CASE Die
  BY <1>5, EndHolds DEF Die
<1>6. CASE (\E c \in Proc : CallStep(c)) /\ UNCHANGED bvars
  BY <1>6, CallStepHolds
<1>7. CASE run = "serve" /\ (\E c \in Caller : Request(c)) /\ UNCHANGED bvars
  BY <1>7, RequestHolds
<1>8. CASE UNCHANGED <<pvars, bvars>>
  BY <1>8, BootRests
<1> QED
  BY <1>1, <1>2, <1>3, <1>4, <1>5, <1>6, <1>7, <1>8 DEF BootNext

LEMMA BootInvImplies == BootInv => BootTypeOK /\ EntryHasFile /\ SkipsBadPlugins
<1> SUFFICES ASSUME BootInv PROVE BootTypeOK /\ EntryHasFile /\ SkipsBadPlugins
  OBVIOUS
<1> USE DEF BootInv
<1>1. EntryHasFile
  BY DEF PluginInv, Entries, EntryHasFile
<1>2. ASSUME run = "register", call[Booter].pc = "done", NEW b \in Base \ Builtin, NEW f \in File,
             OnDisk(b) = {f}
      PROVE  b \in todo \cup registry <=> dir[f] # Bad
  <2>1. f \in Scan /\ BaseOf[f] = b
    BY <1>2 DEF OnDisk, Scan
  <2>2. plugins[b] # Absent
    BY <1>2, <2>1, NamesAre DEF Loaded, PluginInv, Calls
  <2>3. plugins[b].file = f /\ plugins[b].lib = dir[f]
    BY <1>2, <2>2 DEF Loaded
  <2>4. b \in todo \cup registry <=> b \in Connectors
    BY <1>2 DEF Registering
  <2> QED
    BY <2>2, <2>3, <2>4 DEF Connectors
<1>3. ASSUME run = "register", todo \cap registry # {}
      PROVE  \E f \in File : dir[f] \in Lib /\ BaseOf[f] \in Builtin
  <2>1. PICK b \in todo \cap registry : TRUE
    BY <1>3
  <2>2. b \in Builtin /\ b \in Connectors
    BY <1>3, <2>1 DEF Registering
  <2> DEFINE f == plugins[b].file
  <2>3. b \in Base /\ plugins[b].lib # Bad /\ f \in OnDisk(b) /\ plugins[b].lib = dir[f]
    BY <1>3, <2>2 DEF Loaded, Connectors
  <2>4. f \in File /\ BaseOf[f] = b /\ dir[f] # Absent /\ dir[f] # Bad
    BY <2>3 DEF OnDisk
  <2>5. dir[f] \in Lib
    BY <2>4, CallTypes DEF PluginInv, Content
  <2> QED
    BY <2>2, <2>4, <2>5
<1> QED
  BY <1>1, <1>2, <1>3 DEF SkipsBadPlugins

\* SaveUpload, Delete and loadOne of plugin.go: whatever is uploaded and deleted,
\* an entry has a file and offers what this process opened, for each base name
\* that no two calls were about at once.
THEOREM EntriesHaveFiles == BootSpec => []EntryHasFile
<1> QED
  BY BootStarts, BootGoesOn, BootInvImplies, PTL DEF BootSpec

\* LoadAll and the registration in main: every plugin that works is registered
\* and no other, and only one named like a builtin connector is a panic.
THEOREM BadPluginsAreSkipped == BootSpec => []SkipsBadPlugins
<1> QED
  BY BootStarts, BootGoesOn, BootInvImplies, PTL DEF BootSpec

-----------------------------------------------------------------------------
(* Both parts keep their types, in a behaviour of either. *)

\* Each part has its invariant, also while the other one is at work.
BothInv == LoadInv /\ BootInv

LEMMA BothGoOn == BothInv /\ [Next]_all => BothInv'
<1> SUFFICES ASSUME BothInv, [Next]_all PROVE BothInv'
  OBVIOUS
<1>1. [CfgNext]_cvars /\ [BootNext]_<<pvars, bvars>>
  BY DEF Next, all
<1> QED
  BY <1>1, LoadGoesOn, BootGoesOn DEF BothInv

\* The variables of Load, of the plugins and of the process keep their types.
THEOREM BootsTyping == Spec => []BootsTypeOK
<1>1. Init => BothInv
  BY LoadInit, BootStarts DEF Init, BothInv
<1>2. BothInv => BootsTypeOK
  BY LoadInvImplies, BootInvImplies DEF BothInv, BootsTypeOK
<1> QED
  BY <1>1, <1>2, BothGoOn, PTL DEF Spec
=============================================================================
