------------------------------ MODULE FileTools ------------------------------
(***************************************************************************)
(* connectors/builtin/filesystem/filesystem.go: the tools of one instance, *)
(* called by several MCP clients at once over one directory.  There is no  *)
(* lock: the calls meet in the file system, one system call at a time.     *)
(***************************************************************************)
EXTENDS Integers, SequencesExt

CONSTANTS Path, Root,     \* paths in the sandbox, resolve("") among them
          Parent,         \* the directory of each path but Root
          Order,          \* the paths as filepath.Walk meets them
          Matching,       \* the paths whose name contains the query
          Inode, Dir,     \* what a path can be ...
          Nothing,        \* ... if there is something
          Block, Texts,   \* contents: sequences of blocks
          Limits, DefaultLimit,   \* max_file_bytes in configurations
          Wanted,         \* max_results in calls
          FileClient

ASSUME FileAssumption ==
    /\ Root \in Path /\ Matching \subseteq Path \ {Root}
    /\ Parent \in [Path \ {Root} -> Path]
    /\ Order \in Seq(Path) /\ ToSet(Order) = Path /\ IsInjective(Order)
    /\ Head(Order) = Root
    /\ \A i, j \in DOMAIN Order : Order[i] # Root /\ Parent[Order[i]] = Order[j] => j < i
    /\ Limits \subseteq Int /\ Wanted \subseteq Int /\ DefaultLimit \in Nat \ {0}
    /\ {Dir, Nothing} \cap Inode = {} /\ Dir # Nothing
    /\ Texts \subseteq Seq(Block)

VARIABLES
    tree,    \* what is at each path
    data,    \* the content of each file
    fcfg,    \* the instance: read_only and max_file_bytes; Nothing before Init
    fcall,   \* the call of each client
    muddled  \* history: files that overlapping calls wrote, or a call that
             \* failed or died between the open and the end of its write

fvars == <<tree, data, fcfg, fcall, muddled>>

NoFileCall == [pc |-> "idle", path |-> Root, fd |-> Nothing, text |-> <<>>, size |-> 0,
               raced |-> FALSE, todo |-> {}, hits |-> {}, limit |-> 0, stayed |-> {},
               skipped |-> {}]

FilesInit == /\ tree \in [Path -> {Dir, Nothing}] /\ tree[Root] = Dir
             /\ \A p \in Path \ {Root} : tree[p] = Dir => tree[Parent[p]] = Dir
             /\ data = [i \in Inode |-> <<>>]
             /\ fcfg = Nothing
             /\ fcall = [c \in FileClient |-> NoFileCall]
             /\ muddled = {}

Children(p) == {q \in Path \ {Root} : Parent[q] = p /\ tree[q] # Nothing}
\* A set of paths with the directory of each path in it.
Upward(S) == \A q \in S \ {Root} : Parent[q] \in S
\* The least such set with the directory of p.
Ancestors == [p \in Path |-> {q \in Path : \A S \in SUBSET Path :
                                Upward(S) /\ (p # Root => Parent[p] \in S) => q \in S}]
\* What a path or a call refers to; the file system frees the rest.
Referred(t, calls) == {t[p] : p \in Path} \cup {calls[c].fd : c \in FileClient}
Frees(spoilt) ==
    LET kept == Referred(tree', fcall')
    IN  /\ data' = [i \in Inode |-> IF i \in kept THEN data[i] ELSE <<>>]
        /\ muddled' = spoilt \cap kept
InUse == Referred(tree, fcall)
\* The inode of a new file; none when the file system is full.
Fresh == IF Inode \subseteq InUse THEN {} ELSE {CHOOSE i \in Inode : i \notin InUse}

FileAt(c, pc) == fcall[c].pc = pc
Opens(c, r) == FileAt(c, "idle") /\ fcall' = [fcall EXCEPT ![c] = r]

\* The calls after i has changed: those that have it open were raced.
Raced(i) == [c \in FileClient |-> [fcall[c] EXCEPT !.raced = @ \/ fcall[c].fd = i]]

-----------------------------------------------------------------------------
(* A wrong variant of a definition below, a bug the code could have. *)

TruncatedNot(i) == data[i] \* opened without O_TRUNC

-----------------------------------------------------------------------------
(* Init: the root is a directory, and a limit that is not positive the default *)

Limit(n) == IF n <= 0 THEN DefaultLimit ELSE n

InitFiles == /\ fcfg = Nothing /\ tree[Root] = Dir
             /\ \E ro \in BOOLEAN, n \in Limits :
                   fcfg' = [readOnly |-> ro, max |-> Limit(n)]
             /\ UNCHANGED <<tree, data, fcall, muddled>>

(* read_file: Open and Stat, then ReadAll *)

TooLarge(p) == Len(data[tree[p]]) > fcfg.max

OpenRead(c, p) ==
    /\ tree[p] \in Inode /\ ~TooLarge(p)
    /\ Opens(c, [NoFileCall EXCEPT !.pc = "read", !.fd = tree[p],
                                   !.size = Len(data[tree[p]])])
    /\ UNCHANGED <<tree, data, fcfg, muddled>>

ReadAll(c) == /\ FileAt(c, "read")
              /\ fcall' = [fcall EXCEPT ![c].pc = "has read", ![c].text = data[fcall[c].fd]]
              /\ UNCHANGED <<tree, data, fcfg, muddled>>

(* write_file: Stat and MkdirAll, then WriteFile, which opens and writes, and Stat *)

Stat(c, p, text, dirs) ==
    /\ ~fcfg.readOnly /\ tree[p] # Dir
    /\ dirs => \A q \in Ancestors[p] : tree[q] \in {Dir, Nothing}
    /\ tree' = [q \in Path |-> IF dirs /\ q \in Ancestors[p] THEN Dir ELSE tree[q]]
    /\ Opens(c, [NoFileCall EXCEPT !.pc = "open", !.path = p, !.text = text])
    /\ UNCHANGED <<data, fcfg, muddled>>

Truncated(i) == <<>>

OpenWrite(c) ==
    LET p == fcall[c].path
    IN  /\ FileAt(c, "open")
        /\ tree[p] # Dir /\ (p # Root => tree[Parent[p]] = Dir)
        /\ \E i \in IF tree[p] = Nothing THEN Fresh ELSE {tree[p]} :
              /\ tree' = [tree EXCEPT ![p] = i]
              /\ data' = [data EXCEPT ![i] = IF i \in InUse THEN Truncated(i) ELSE <<>>]
              /\ fcall' = [Raced(i) EXCEPT ![c] = [NoFileCall EXCEPT
                             !.pc = "write", !.fd = i, !.text = fcall[c].text]]
              /\ muddled' = IF \E d \in FileClient : fcall[d].pc = "write" /\ fcall[d].fd = i
                            THEN muddled \cup {i}
                            ELSE muddled \ {i}
        /\ UNCHANGED fcfg

\* A text goes to the start of a file, over what is there by now.
Over(text, old) == text \o SubSeq(old, Len(text) + 1, Len(old))

\* The whole text is written; the call then looks at the file and answers.
WriteText(c) ==
    LET i == fcall[c].fd
    IN  /\ FileAt(c, "write")
        /\ data' = [data EXCEPT ![i] = Over(fcall[c].text, @)]
        /\ fcall' = [Raced(i) EXCEPT ![c] = [fcall[c] EXCEPT !.pc = "wrote"]]
        /\ UNCHANGED <<tree, fcfg, muddled>>

\* The disk is full after some of the text, or none: what was there is gone
\* since the open, and what got in stays.
WriteFails(c) ==
    LET i == fcall[c].fd
        text == fcall[c].text
    IN  /\ FileAt(c, "write")
        /\ \E n \in 0 .. Len(text) - 1 :
              data' = [data EXCEPT ![i] = Over(SubSeq(text, 1, n), @)]
        /\ muddled' = muddled \cup {i}
        /\ fcall' = [Raced(i) EXCEPT ![c] = [NoFileCall EXCEPT !.pc = "failed", !.fd = i]]
        /\ UNCHANGED <<tree, fcfg>>

(* delete_file: Stat and ReadDir, then Remove *)

StatDelete(c, p) == /\ ~fcfg.readOnly /\ tree[p] # Nothing /\ Children(p) = {}
                    /\ Opens(c, [NoFileCall EXCEPT !.pc = "remove", !.path = p])
                    /\ UNCHANGED <<tree, data, fcfg, muddled>>

Removed(p) == IF Children(p) = {} THEN [tree EXCEPT ![p] = Nothing] ELSE tree

Unlinks(c) == LET p == fcall[c].path
              IN  /\ FileAt(c, "remove")
                  /\ tree' = Removed(p)
                  /\ fcall' = [d \in FileClient |->
                                 IF d = c THEN NoFileCall
                                 ELSE [fcall[d] EXCEPT !.stayed = {q \in @ : tree'[q] # Nothing}]]
                  /\ Frees(muddled) /\ UNCHANGED fcfg

(* search, and with every path and no limit the tree resource: filepath.Walk *)

StartWalk(c, wanted) ==
    /\ Opens(c, [NoFileCall EXCEPT !.pc = "walk", !.limit = wanted, !.todo = {Root},
                                   !.stayed = {p \in Path : tree[p] # Nothing}])
    /\ UNCHANGED <<tree, data, fcfg, muddled>>

Full(c) == Cardinality(fcall[c].hits) >= fcall[c].limit

\* The next path of the walk.
Ahead(todo) == Order[SelectInSeq(Order, LAMBDA q : q \in todo)]

\* It is looked at, and a directory's names are read.
Visit(c) ==
    LET todo == fcall[c].todo
        p == Ahead(todo)
    IN  /\ FileAt(c, "walk") /\ todo # {}
        /\ fcall' = [fcall EXCEPT
             ![c].todo = IF tree[p] = Nothing THEN @ \ {p}
                         ELSE IF Full(c) THEN {} ELSE (@ \ {p}) \cup Children(p),
             ![c].hits = IF tree[p] # Nothing /\ p \in Matching /\ ~Full(c)
                         THEN @ \cup {p} ELSE @]
        /\ UNCHANGED <<tree, data, fcfg, muddled>>

\* It cannot be looked at, or its names cannot be read: the walk goes on
\* without it and without what is below it, and the answer does not say so.
Skip(c) ==
    LET p == Ahead(fcall[c].todo)
    IN  /\ FileAt(c, "walk") /\ fcall[c].todo # {}
        /\ fcall' = [fcall EXCEPT ![c].todo = @ \ {p}, ![c].skipped = @ \cup {p}]
        /\ UNCHANGED <<tree, data, fcfg, muddled>>

Walked(c) == FileAt(c, "walk") /\ fcall[c].todo = {}

\* A call returns, and a system call that fails before it has changed anything
\* makes it return an error.
Return(c) == /\ \/ fcall[c].pc \in {"read", "has read", "open", "wrote", "failed", "remove"}
                \/ Walked(c)
             /\ fcall' = [fcall EXCEPT ![c] = NoFileCall]
             /\ UNCHANGED <<tree, fcfg>> /\ Frees(muddled)

\* The process ends in the middle of all calls.
FilesDie == /\ fcfg # Nothing
            /\ fcfg' = Nothing
            /\ fcall' = [c \in FileClient |-> NoFileCall]
            /\ UNCHANGED tree
            /\ Frees(muddled \cup {i \in Inode : \E c \in FileClient :
                                      fcall[c].pc = "write" /\ fcall[c].fd = i})

FilesNext ==
    \/ InitFiles \/ FilesDie
    \/ fcfg # Nothing /\ \E c \in FileClient :
         \/ \E p \in Path : OpenRead(c, p) \/ StatDelete(c, p)
         \/ \E p \in Path, text \in Texts, dirs \in BOOLEAN : Stat(c, p, text, dirs)
         \/ \E n \in Wanted : StartWalk(c, n)
         \/ ReadAll(c) \/ OpenWrite(c) \/ WriteText(c) \/ WriteFails(c) \/ Unlinks(c)
         \/ Visit(c) \/ Skip(c) \/ Return(c)

-----------------------------------------------------------------------------
FileTypeOK ==
    /\ tree \in [Path -> Inode \cup {Dir, Nothing}]
    /\ data \in [Inode -> Seq(Block)]
    /\ fcfg \in [readOnly : BOOLEAN, max : Nat \ {0}] \cup {Nothing}
    /\ \A c \in FileClient : /\ fcall[c].fd \in Inode \cup {Nothing}
                             /\ fcall[c].todo \cup fcall[c].hits \subseteq Path
    /\ muddled \subseteq Inode

\* "Overwrites existing content": when no writer is at work on a file it has
\* one text that a call wrote, whole, and a call whose write came to its end
\* finds its own text there until another call opens the file.  Two exceptions:
\* a file that two calls wrote at the same time (both are answered as done, and
\* the file can have some of each), and one whose last write failed or was cut
\* short by the end of the process, which has lost what it had before.
WritesAreWhole ==
    /\ \A p \in Path : tree[p] \in Inode \ muddled =>
          data[tree[p]] \in Texts \/ \E c \in FileClient : FileAt(c, "write") /\ fcall[c].fd = tree[p]
    /\ \A c \in FileClient : FileAt(c, "wrote") /\ ~fcall[c].raced =>
          data[fcall[c].fd] = fcall[c].text

\* What read_file answers is as long as it says and within the cap, unless the
\* file changed after its Stat.  It need not be a whole text: a file that is
\* being written, or was left so, is read as it is.
ReadsFit ==
    \A c \in FileClient : FileAt(c, "has read") /\ ~fcall[c].raced =>
       Len(fcall[c].text) = fcall[c].size /\ fcall[c].size <= fcfg.max

\* A search ends with all that matched and was there from its start to its
\* end, or with as many as it was asked for, and never with more.  Except for
\* entries that cannot be read: they are missing from the answer, with all
\* below them, and nothing in it says so.
SearchIsComplete ==
    \A c \in FileClient : Walked(c) =>
       LET n == Cardinality(fcall[c].hits)
           reached == {p \in Path : fcall[c].skipped \cap ({p} \cup Ancestors[p]) = {}}
       IN  /\ n = 0 \/ n <= fcall[c].limit
           /\ n < fcall[c].limit =>
                 Matching \cap fcall[c].stayed \cap reached \subseteq fcall[c].hits
=============================================================================
