----------------------------- MODULE ConfigBoot -----------------------------
(***************************************************************************)
(* internal/config/config.go: Load, run by every start of the process.     *)
(* When there is no file it writes one with empty secrets, and then each   *)
(* secret in a rewrite of the file; a crash can come between any two of    *)
(* these writes, or cut one short.  Texts are sequences of tokens: the     *)
(* marks ${ :- and }, and words, which name variables or are plain text.   *)
(***************************************************************************)
EXTENDS Naturals, SequencesExt

CONSTANTS Word,             \* words in texts
          Open, Sep, Shut,  \* the marks ${ , :- and }
          Made,             \* the words that first boot makes up
          Envs,             \* environments: the text of each word, or None
          Edited,           \* config files an operator may write
          None, Torn

Fields == <<"user", "secret", "hash">>   \* in the order of resolveEnv
Field == ToSet(Fields)
Text == Seq(Word \cup {Open, Sep, Shut})

ASSUME ConfigAssumption ==
    /\ Cardinality({Open, Sep, Shut}) = 3 /\ {Open, Sep, Shut} \cap Word = {}
    /\ Made \in [Field -> Word]
    /\ Envs \subseteq [Word -> Text \cup {None}] /\ Edited \subseteq [Field -> Text]
    /\ None # Torn /\ {None, Torn} \cap [Field -> Text] = {}
    \* The hash of a password made at random is in no text somebody makes up.
    /\ \A e \in Envs : \A w \in Word : e[w] # None => Made["hash"] \notin ToSet(e[w])
    /\ \A f \in Edited : Made["hash"] \notin ToSet(f["hash"])

VARIABLES
    disk,   \* the config file: the text of each field, Torn, or None
    env,    \* the environment of the process
    load,   \* the run of Load: where it is, cfg, and the field substitute is at
    shown,  \* history: the password of the made hash has been printed
    cut     \* history: a first boot ended early and its hash has not been replaced

cvars == <<disk, env, load, shown, cut>>

\* What first boot has on disk when the fields in done are persisted.
Seeded(done) == [f \in Field |-> IF f \in done \cup {"user"} THEN <<Made[f]>> ELSE <<>>]

Down == [pc |-> "down", first |-> FALSE, cfg |-> Seeded({}), next |-> 1]

CfgInit == /\ disk \in {None} \cup Edited
           /\ env \in Envs
           /\ load = Down
           /\ shown = FALSE /\ cut = FALSE

-----------------------------------------------------------------------------
(* substitute *)

\* The place of the first t in v, or 0.
Find(v, t) == SelectInSeq(v, LAMBDA x : x = t)
After(v, i) == SubSeq(v, i + 1, Len(v))

\* os.LookupEnv
Lookup(name) == IF Len(name) = 1 /\ Head(name) \in Word THEN env[Head(name)] ELSE None

\* One turn of the loop: v with its first reference replaced, or None when the
\* reference does not end or has neither a value nor a default.
Expand(v) ==
    LET start == Find(v, Open)
        rest == After(v, start)
        end == Find(rest, Shut)
        ref == SubSeq(rest, 1, end - 1)
        sep == Find(ref, Sep)
        name == IF sep = 0 THEN ref ELSE SubSeq(ref, 1, sep - 1)
        def == IF sep = 0 THEN <<>> ELSE After(ref, sep)
        val == Lookup(name)
    IN  IF end = 0 \/ (val = None /\ def = <<>>) THEN None
        ELSE SubSeq(v, 1, start - 1)
             \o (IF val \in {None, <<>>} /\ def # <<>> THEN def ELSE val)
             \o After(rest, end)

-----------------------------------------------------------------------------
(* Wrong variants of NextField, each a bug this code could have had. *)

NextFieldHeals(l) == \* an empty hash is made up at any start
    IF l.next < Len(Fields) THEN [l EXCEPT !.next = @ + 1]
    ELSE IF l.first \/ l.cfg["hash"] = <<>>
    THEN [l EXCEPT !.pc = "secret", !.cfg = Seeded({"secret", "hash"})]
    ELSE [l EXCEPT !.pc = "check"]

\* The field is done: the next one, or, after the last, the secrets.
NextField(l) ==
    IF l.next < Len(Fields) THEN [l EXCEPT !.next = @ + 1]
    ELSE IF l.first
    THEN [l EXCEPT !.pc = "secret", !.cfg = Seeded({"secret", "hash"})]
    ELSE [l EXCEPT !.pc = "check"]

-----------------------------------------------------------------------------
(* Wrong variants of some steps below, each a bug this code could have had. *)

SubstituteSkips == \* a variable that is empty is left in place
    LET f == Fields[load.next]
        v == load.cfg[f]
        start == Find(v, Open)
    IN  /\ load.pc = "substitute"
        /\ load' = IF start = 0 THEN NextField(load)
                   ELSE IF Expand(v) = None THEN Down
                   ELSE IF Lookup(<<v[start + 1]>>) = <<>> THEN load
                   ELSE [load EXCEPT !.cfg[f] = Expand(v)]
        /\ UNCHANGED <<disk, env, shown, cut>>
PersistedAnew == \* the rewrite starts from the defaults, not from the file
    IF load.pc = "hash" THEN Seeded({"hash"}) ELSE Seeded({"secret"})

-----------------------------------------------------------------------------
(* Load, step by step *)

Start == /\ load.pc = "down"
         /\ env' \in Envs
         /\ load' = [Down EXCEPT !.pc = IF disk = None THEN "seed" ELSE "read",
                                 !.first = disk = None]
         /\ UNCHANGED <<disk, shown, cut>>

Writing == load.pc \in {"seed", "secret", "hash"}

\* WriteFile and WriteConfigAs truncate the file first ...
Truncate == /\ Writing /\ disk # Torn
            /\ disk' = Torn
            /\ UNCHANGED <<env, load, shown, cut>>

\* ... and what they write then is what the file had, and one field more.
Persisted == CASE load.pc = "seed" -> Seeded({})
               [] load.pc = "secret" -> Seeded({"secret"})
               [] load.pc = "hash" -> Seeded({"secret", "hash"})

Write == /\ Writing /\ disk = Torn
         /\ disk' = Persisted
         /\ load' = [load EXCEPT !.pc = CASE @ = "seed" -> "read"
                                          [] @ = "secret" -> "hash"
                                          [] OTHER -> "check"]
         /\ shown' = (shown /\ load.pc # "seed")
         /\ UNCHANGED <<env, cut>>

\* A torn file does not parse, or lacks the secrets, and is refused.
Read == /\ load.pc = "read"
        /\ load' = IF disk = Torn THEN Down
                   ELSE [load EXCEPT !.pc = "substitute", !.cfg = disk]
        /\ UNCHANGED <<disk, env, shown, cut>>

\* After the last field a first boot makes its secrets up.
Substitute ==
    LET f == Fields[load.next]
        v == load.cfg[f]
    IN  /\ load.pc = "substitute"
        /\ load' = IF Find(v, Open) = 0 THEN NextField(load)
                   ELSE IF Expand(v) = None THEN Down
                   ELSE [load EXCEPT !.cfg[f] = Expand(v)]
        /\ UNCHANGED <<disk, env, shown, cut>>

Check == /\ load.pc = "check"
         /\ load' = IF <<>> \in {load.cfg["secret"], load.cfg["hash"]} THEN Down
                    ELSE [load EXCEPT !.pc = "loaded"]
         /\ UNCHANGED <<disk, env, shown, cut>>

\* main prints the password of a first boot.
Announce == /\ load.pc = "loaded"
            /\ load' = [load EXCEPT !.pc = "done"]
            /\ shown' = (shown \/ load.first)
            /\ UNCHANGED <<disk, env, cut>>

\* The process ends, by a crash or because a write failed.
CfgDie == /\ load.pc # "down"
       /\ load' = Down
       /\ cut' = (cut \/ (load.first /\ load.pc # "done"))
       /\ UNCHANGED <<disk, env, shown>>

\* An operator removes the file, writes another, or one with the same hash.
Edit == /\ load.pc = "down"
        /\ \/ disk' \in {None} \cup Edited /\ cut' = FALSE
           \/ /\ disk \notin {None, Torn} /\ UNCHANGED cut
              /\ \E f \in Edited : disk' = [f EXCEPT !["hash"] = disk["hash"]]
        /\ UNCHANGED <<env, load, shown>>

LoadStep == Truncate \/ Write \/ Read \/ Substitute \/ Check \/ Announce
CfgNext == Start \/ LoadStep \/ CfgDie \/ Edit

\* Load runs to its end; nobody owes it a start.
CfgFairSpec == CfgInit /\ [][CfgNext]_cvars /\ WF_cvars(LoadStep)

-----------------------------------------------------------------------------
CfgTypeOK ==
    /\ disk \in [Field -> Text] \cup {None, Torn}
    /\ env \in Envs
    /\ load \in [pc : {"down", "seed", "read", "substitute", "secret", "hash", "check",
                       "loaded", "done"},
                 first : BOOLEAN, cfg : [Field -> Text], next : DOMAIN Fields]
    /\ {shown, cut} \subseteq BOOLEAN

Up == load.pc \in {"loaded", "done"}

\* "Persist the JWT secret so subsequent restarts stay valid", and "downstream
\* code never sees ${...} literals": a server runs with secrets, expanded, and its
\* file says the same, so the next start comes to them again, also after crashes
\* in the middle of a first boot.
SecretsArePersisted ==
    Up => /\ disk \notin {Torn, None}
          /\ \A f \in Field : Open \notin ToSet(load.cfg[f])
          /\ \A f \in {"secret", "hash"} :
                /\ load.cfg[f] # <<>>
                /\ Open \notin ToSet(disk[f]) => load.cfg[f] = disk[f]

\* The password that first boot made up is printed once and kept nowhere: who
\* runs with its hash has seen it, unless that first boot was cut short.
PasswordWasShown ==
    load.pc = "done" /\ load.cfg["hash"] = <<Made["hash"]>>
       => shown \/ cut

\* Some order of the words in which every value mentions lower words only.
WellFounded(e) ==
    \E rank \in [Word -> 1 .. Cardinality(Word)] :
       \A w \in Word : e[w] # None =>
          \A x \in ToSet(e[w]) \cap Word : rank[x] < rank[w]

\* substitute looks again at the text it put in: it ends when no variable leads
\* back to itself (and only then: one that does hangs the start for good).
SubstituteEnds ==
    (load.pc = "substitute" /\ WellFounded(env)) ~> load.pc # "substitute"
=============================================================================
