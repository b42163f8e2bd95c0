---------------------------- MODULE PluginManager ----------------------------
(***************************************************************************)
(* internal/plugin/plugin.go: the Manager of a directory of libraries.     *)
(* Files of one base name (x.so, x.dll) share one entry.  A library stays  *)
(* in the process once it is open: opening its path again gives the same   *)
(* one, whatever the file contains by then.                                *)
(***************************************************************************)
EXTENDS Naturals, SequencesExt

CONSTANTS File, Base, BaseOf,
          Exts,     \* the files of each base name in the order of Delete
          Lib, Bad, \* libraries with a connector, and all that fails to load
          Caller,   \* calls of SaveUpload and Delete
          Booter,   \* main's call of LoadAll
          Absent

ASSUME PluginAssumption ==
    /\ BaseOf \in [File -> Base]
    /\ Exts \in [Base -> Seq(File)]
    /\ \A b \in Base : /\ IsInjective(Exts[b])
                       /\ ToSet(Exts[b]) = {f \in File : BaseOf[f] = b}
    /\ {Bad, Absent} \cap Lib = {} /\ Bad # Absent /\ Booter \notin Caller
    /\ Absent \notin File \cup Base \cup [file : File, lib : Lib \cup {Bad}]

VARIABLES
    dir,     \* the directory
    image,   \* the libraries this process has opened, by path (Bad: one
             \* without a connector)
    plugins, \* m.plugins: file and library (Bad: LoadError) of each entry
    call,    \* each call: where it is, its file, and the files still to load
    mixed    \* history: base names that overlapping calls were about

pvars == <<dir, image, plugins, call, mixed>>

Proc == Caller \cup {Booter}
Content == Lib \cup {Bad}
Rest == [pc |-> "idle", base |-> Absent, file |-> Absent, files |-> {}]

PluginInit == /\ dir \in [File -> Content \cup {Absent}]
              /\ image = [f \in File |-> Absent]
              /\ plugins = [b \in Base |-> Absent]
              /\ call = [c \in Proc |-> Rest]
              /\ mixed = {}

OnDisk(b) == {f \in File : BaseOf[f] = b /\ dir[f] # Absent}
Scan == {f \in File : dir[f] # Absent}

\* The connectors to register, by base name.
Connectors == {b \in Base : plugins[b] # Absent /\ plugins[b].lib # Bad}

Begin(c, r) == /\ call[c].pc = "idle"
               /\ call' = [call EXCEPT ![c] = r]
               /\ mixed' = mixed \cup {b \in {r.base} \cap Base :
                                         \E d \in Proc : call[d].base = b}

-----------------------------------------------------------------------------
(* Wrong variants of some definitions below, each a bug the code could have. *)

OpenedNil(f) == \* a missing file is no error
    IF image[f] # Absent THEN image[f] ELSE dir[f]
RecordStops(c) == \* LoadAll returns at the first error
    LET f == call[c].file
    IN  /\ call[c].pc = "open"
        /\ image' = [image EXCEPT ![f] = IF dir[f] \in Lib THEN dir[f] ELSE @]
        /\ plugins' = [plugins EXCEPT ![BaseOf[f]] =
                         [file |-> f, lib |-> IF dir[f] = Absent THEN Bad ELSE dir[f]]]
        /\ call' = [call EXCEPT ![c] =
                      IF call[c].files # {} /\ dir[f] \in Lib THEN [@ EXCEPT !.pc = "next"]
                      ELSE IF c = Booter THEN [Rest EXCEPT !.pc = "done"]
                      ELSE Rest]
        /\ UNCHANGED <<dir, mixed>>
RemoveKeeps(c, b) == \* only the file goes
    /\ Begin(c, [Rest EXCEPT !.pc = "unlink", !.base = b])
    /\ UNCHANGED <<dir, image, plugins>>

-----------------------------------------------------------------------------
(* loadOne: the old entry goes, then the library is opened, then recorded *)

Forget(c) == \E f \in call[c].files :
    /\ call[c].pc = "next"
    /\ plugins' = [plugins EXCEPT ![BaseOf[f]] = Absent]
    /\ call' = [call EXCEPT ![c] = [pc |-> "open", base |-> BaseOf[f], file |-> f,
                                    files |-> @.files \ {f}]]
    /\ UNCHANGED <<dir, image, mixed>>

\* What plugin.Open and Lookup come to, for an open library what they came to
\* before; an error is an entry too.
Opened(f) == IF image[f] # Absent THEN image[f] ELSE IF dir[f] = Absent THEN Bad ELSE dir[f]

\* What the process then has of f: a library that opens stays open for good,
\* also when Lookup finds no connector in it.
Images(f) == IF Opened(f) \in Lib THEN {Opened(f)}
             ELSE IF dir[f] = Absent THEN {image[f]} ELSE {image[f], Bad}

Record(c) ==
    LET f == call[c].file
    IN  /\ call[c].pc = "open"
        /\ \E i \in Images(f) : image' = [image EXCEPT ![f] = i]
        /\ plugins' = [plugins EXCEPT ![BaseOf[f]] = [file |-> f, lib |-> Opened(f)]]
        /\ call' = [call EXCEPT ![c] = IF call[c].files # {} THEN [@ EXCEPT !.pc = "next"]
                                       ELSE IF c = Booter THEN [Rest EXCEPT !.pc = "done"]
                                       ELSE Rest]
        /\ UNCHANGED <<dir, mixed>>

-----------------------------------------------------------------------------
(* The operations *)

LoadAll == /\ Begin(Booter, [Rest EXCEPT !.files = Scan,
                                         !.pc = IF Scan = {} THEN "done" ELSE "next"])
           /\ UNCHANGED <<dir, image, plugins>>

\* The file is written and then loaded.
SaveUpload(c, f, l) ==
    /\ Begin(c, [Rest EXCEPT !.pc = "next", !.base = BaseOf[f], !.files = {f}])
    /\ dir' = [dir EXCEPT ![f] = l]
    /\ UNCHANGED <<image, plugins>>

\* Or what is written is only a part of it: an error, and nothing is loaded.
UploadFails(c, f) == /\ call[c].pc = "idle"
                     /\ dir' = [dir EXCEPT ![f] = Bad]
                     /\ UNCHANGED <<image, plugins, call, mixed>>

\* Delete: Remove forgets the entry ...
RemoveEntry(c, b) == /\ Begin(c, [Rest EXCEPT !.pc = "unlink", !.base = b])
                /\ plugins' = [plugins EXCEPT ![b] = Absent]
                /\ UNCHANGED <<dir, image>>

\* ... and then one file goes, the first there is: m.loaded has paths, which
\* never are base names, so the loop over it removes nothing.
Unlink(c) ==
    LET b == call[c].base
        i == SelectInSeq(Exts[b], LAMBDA f : dir[f] # Absent)
    IN  /\ call[c].pc = "unlink"
        /\ dir' = [f \in File |-> IF i # 0 /\ f = Exts[b][i] THEN Absent ELSE dir[f]]
        /\ call' = [call EXCEPT ![c] = Rest]
        /\ UNCHANGED <<image, plugins, mixed>>

\* The process has ended: the directory is all that is left.
PluginReset == /\ image' = [f \in File |-> Absent]
               /\ plugins' = [b \in Base |-> Absent]
               /\ call' = [c \in Proc |-> Rest]
               /\ mixed' = {}
               /\ UNCHANGED dir

CallStep(c) == Forget(c) \/ Record(c) \/ Unlink(c)
\* The calls of handlePluginUpload and handlePluginDelete.  In this program main
\* never sets API.Plugins, without which both refuse: its own call is LoadAll.
Request(c) == \/ \E f \in File, l \in Content : SaveUpload(c, f, l)
              \/ \E f \in File : UploadFails(c, f)
              \/ \E b \in Base : RemoveEntry(c, b)

-----------------------------------------------------------------------------
PluginTypeOK ==
    /\ dir \in [File -> Content \cup {Absent}] /\ image \in [File -> Content \cup {Absent}]
    /\ plugins \in [Base -> [file : File, lib : Content] \cup {Absent}]
    /\ call \in [Proc -> [pc : {"idle", "next", "open", "unlink", "done"},
                          base : Base \cup {Absent}, file : File \cup {Absent},
                          files : SUBSET File]]
    /\ mixed \subseteq Base

\* An entry is that of a file of the directory, and what it offers is the one
\* image of that file in the process: no upload and no delete leaves a plugin
\* behind whose file is gone, unless calls about one name overlapped.
EntryHasFile ==
    \A b \in Base \ mixed :
       plugins[b] # Absent /\ (\A c \in Proc : call[c].base # b) =>
          /\ plugins[b].file \in OnDisk(b)
          /\ plugins[b].lib # Bad => plugins[b].lib = image[plugins[b].file]
=============================================================================
