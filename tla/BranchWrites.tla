----------------------------- MODULE BranchWrites -----------------------------
(***************************************************************************)
(* The GitHub tools that change the files of a branch                      *)
(* (connectors/github/files.js).  Two families share the branch: the       *)
(* contents API, one file and one request, conditional on the blob the     *)
(* tool read; and the git data API, where a commit is built on a snapshot  *)
(* and the branch is then moved to it, never by force.  Calls overlap with *)
(* each other and with commits made elsewhere, and an answer may be lost   *)
(* after GitHub has done the work.                                         *)
(*                                                                         *)
(* A file's text is a sequence of words, a missing file has none, and a    *)
(* blob's sha is its text.  Objects read by sha never change, so a call    *)
(* reads the branch once, in one step.                                     *)
(***************************************************************************)
EXTENDS Naturals, Sequences, FiniteSets

CONSTANTS
    Writers,        \* the tool calls
    WriteRequests,  \* what a call may be asked
    Paths, Words,
    FirstTree,      \* the files the branch starts with
    OtherEdits,     \* what someone else may commit: [path, text]
    WriteBudget     \* [other, fault]: commits made elsewhere, and calls that fail

VARIABLES
    commits,        \* the repository's commits: [parent, tree, by]
    head,           \* the branch: a commit's place in `commits`
    tips,         \* every commit the branch has pointed at
    write,          \* each call: where it is, what was asked, read, built and answered
    writeLeft

branchVars == <<commits, head, tips, write, writeLeft>>

Missing == <<>>
NoCommit == 0
NoAsk == [kind |-> "none"]

Texts == UNION {[1..n -> Words] : n \in 0..3}
Trees == [Paths -> Texts]

-----------------------------------------------------------------------------
\* str_replace, one replacement after the other; one whose string is not there exactly once is
\* an error that aborts the call once all have been tried.
Occurrences(text, w) == Cardinality({i \in DOMAIN text : text[i] = w})

Replaced(text, edit) ==
    IF Occurrences(text, edit.old) = 1
    THEN [i \in DOMAIN text |-> IF text[i] = edit.old THEN edit.new ELSE text[i]]
    ELSE text

Edited(text, edits) ==
    LET After[n \in 0..Len(edits)] == IF n = 0 THEN text ELSE Replaced(After[n - 1], edits[n])
    IN  [text |-> After[Len(edits)],
         clean |-> \A n \in DOMAIN edits : Occurrences(After[n - 1], edits[n].old) = 1]

\* delete_file reads the file for its sha and commits the branch without it.
DeletesFile(ask) == ask.kind = "delete"

\* Two entries for one path, or a rename onto itself, are rejected before anything is read.
Rejected(ask) ==
    \/ ask.kind = "push" /\ \E i, j \in DOMAIN ask.files : i # j /\ ask.files[i].path = ask.files[j].path
    \/ ask.kind = "rename" /\ ask.path = ask.to

\* What the branch's files refuse of a request once they have been read.
Refused(ask, tree) ==
    CASE ask.kind = "create" -> tree[ask.path] # Missing
      [] ask.kind = "edit" ->
            \/ tree[ask.path] = Missing
            \/ ~Edited(tree[ask.path], ask.edits).clean
            \/ Edited(tree[ask.path], ask.edits).text = tree[ask.path]
      [] DeletesFile(ask) -> tree[ask.path] = Missing
      [] ask.kind = "rename" -> tree[ask.path] = Missing \/ tree[ask.to] # Missing
      [] OTHER -> FALSE

\* The text a single-file request leaves at its path.
Written(ask, read) ==
    CASE ask.kind = "edit" -> Edited(read, ask.edits).text
      [] DeletesFile(ask) -> Missing
      [] OTHER -> ask.text

\* The tree a commit of several paths is built as, on the snapshot's.
BuiltOn(tree, ask) ==
    IF ask.kind = "rename"
    THEN [tree EXCEPT ![ask.to] = tree[ask.path], ![ask.path] = Missing]
    ELSE [p \in Paths |-> IF \E f \in DOMAIN ask.files : ask.files[f].path = p
                          THEN ask.files[CHOOSE f \in DOMAIN ask.files : ask.files[f].path = p].text
                          ELSE tree[p]]

OneFile(ask) == ask.kind \in {"create", "edit", "overwrite", "delete"}

\* Requests name paths of the repository, and no tool call is who else commits.
ASSUME BranchAssumption ==
    /\ Writers \cap {"start", "other"} = {}
    /\ FirstTree \in Trees
    /\ OtherEdits \subseteq [path : Paths, text : Texts]
    /\ \A ask \in WriteRequests :
            /\ ask.kind \in {"create", "edit", "overwrite", "delete", "rename", "push"}
            /\ ask.kind # "push" => ask.path \in Paths
            /\ ask.kind = "rename" => ask.to \in Paths
    /\ WriteBudget \in [other : Nat, fault : Nat]

-----------------------------------------------------------------------------
HeadTree == commits[head].tree

NewCommit == Len(commits) + 1

\* A commit and its ancestors: what every set has that has the commit and its members' parents.
HoldsParents(S) == \A i \in S : commits[i].parent \in S \cup {NoCommit}
HistoryOf(commit) ==
    {i \in DOMAIN commits :
        \A S \in SUBSET DOMAIN commits : commit \in S /\ HoldsParents(S) => i \in S}

Lands(commit) == head' = commit /\ tips' = tips \cup {commit}

BranchInit ==
    /\ commits = <<[parent |-> NoCommit, tree |-> FirstTree, by |-> "start"]>>
    /\ head = 1
    /\ tips = {1}
    /\ write = [c \in Writers |-> [at |-> "idle", ask |-> NoAsk, read |-> Missing,
                                   base |-> NoCommit, built |-> NoCommit, answer |-> NoCommit]]
    /\ writeLeft = WriteBudget

\* A tool is called.
AskWrite(c) ==
    /\ write[c].at = "idle"
    /\ \E ask \in WriteRequests :
            write' = [write EXCEPT ![c].ask = ask, ![c].at = IF Rejected(ask) THEN "done" ELSE "read"]
    /\ UNCHANGED <<commits, head, tips, writeLeft>>

\* It reads the branch: the file at its path, or the commit it is going to build on.
ReadBranch(c) ==
    LET ask == write[c].ask
    IN  /\ write[c].at = "read"
        /\ write' = [write EXCEPT ![c].at = IF Refused(ask, HeadTree) THEN "done"
                                            ELSE IF OneFile(ask) THEN "put" ELSE "build",
                                  ![c].read = IF OneFile(ask) THEN HeadTree[ask.path] ELSE Missing,
                                  ![c].base = head]
        /\ UNCHANGED <<commits, head, tips, writeLeft>>

\* The blob sha a contents request carries: that of the text the call read.
ShaNow(c) == HeadTree[write[c].ask.path]
Sha(c) == write[c].read

\* GitHub's contents API commits on the branch's head if the file there is the one named, a
\* request without a sha naming a file that is not there.  The answer may be lost.
Put(c) ==
    LET ask == write[c].ask
        new == [parent |-> head, by |-> c,
                tree |-> [HeadTree EXCEPT ![ask.path] = Written(ask, write[c].read)]]
    IN  /\ write[c].at = "put"
        /\ IF HeadTree[ask.path] = Sha(c)
           THEN \E heard \in {TRUE, writeLeft.fault = 0} :
                    /\ commits' = Append(commits, new)
                    /\ Lands(NewCommit)
                    /\ write' = [write EXCEPT ![c].at = "done", ![c].answer = IF heard THEN NewCommit ELSE NoCommit]
                    /\ writeLeft' = [writeLeft EXCEPT !.fault = IF heard THEN @ ELSE @ - 1]
           ELSE /\ write' = [write EXCEPT ![c].at = "done"]
                /\ UNCHANGED <<commits, head, tips, writeLeft>>

\* Blobs, tree and commit are made; nothing points at them yet.
Build(c) ==
    LET base == write[c].base
    IN  /\ write[c].at = "build"
        /\ commits' = Append(commits, [parent |-> base, by |-> c, tree |-> BuiltOn(commits[base].tree, write[c].ask)])
        /\ write' = [write EXCEPT ![c].at = "patch", ![c].built = NewCommit]
        /\ UNCHANGED <<head, tips, writeLeft>>

\* GitHub moves the branch only forward: its head must be an ancestor of the new commit.
Patch(c) ==
    LET built == write[c].built
    IN  /\ write[c].at = "patch"
        /\ IF head \in HistoryOf(built)
           THEN \E heard \in {TRUE, writeLeft.fault = 0} :
                    /\ Lands(built)
                    /\ write' = [write EXCEPT ![c].at = "done", ![c].answer = IF heard THEN built ELSE NoCommit]
                    /\ writeLeft' = [writeLeft EXCEPT !.fault = IF heard THEN @ ELSE @ - 1]
           ELSE /\ write' = [write EXCEPT ![c].at = "done"]
                /\ UNCHANGED <<head, tips, writeLeft>>
        /\ UNCHANGED commits

\* A request fails without doing anything: only a 404 means that a file is not there, every other
\* failure ends the call with an error.
FailWrite(c) ==
    /\ write[c].at \in {"read", "put", "build", "patch"}
    /\ writeLeft.fault > 0
    /\ writeLeft' = [writeLeft EXCEPT !.fault = @ - 1]
    /\ write' = [write EXCEPT ![c].at = "done"]
    /\ UNCHANGED <<commits, head, tips>>

\* Someone else commits to the branch.
OtherCommit ==
    /\ writeLeft.other > 0
    /\ \E e \in OtherEdits :
            /\ HeadTree[e.path] # e.text
            /\ commits' = Append(commits, [parent |-> head, by |-> "other", tree |-> [HeadTree EXCEPT ![e.path] = e.text]])
    /\ Lands(NewCommit)
    /\ writeLeft' = [writeLeft EXCEPT !.other = @ - 1]
    /\ UNCHANGED write

BranchNext ==
    \/ OtherCommit
    \/ \E c \in Writers : AskWrite(c) \/ ReadBranch(c) \/ Put(c) \/ Build(c) \/ Patch(c) \/ FailWrite(c)

BranchSpec == BranchInit /\ [][BranchNext]_branchVars

-----------------------------------------------------------------------------
BranchTypeOK ==
    /\ \A i \in DOMAIN commits : commits[i].parent \in 0..(i - 1) /\ commits[i].tree \in Trees
    /\ head \in DOMAIN commits
    /\ tips \subseteq DOMAIN commits
    /\ \A c \in Writers : /\ write[c].at \in {"idle", "read", "put", "build", "patch", "done"}
                          /\ write[c].ask \in WriteRequests \cup {NoAsk}
                          /\ write[c].read \in Texts
                          /\ {write[c].base, write[c].built, write[c].answer} \subseteq {0} \cup DOMAIN commits

\* What a call's commit must be, compared with the branch as it was just before it: the files the
\* call does not name are as they were; a create or a rename covered no file; an edit's
\* replacements each hit the one place they name in the text that was there; a rename moved
\* the text that was there.
Faithful(i) ==
    LET ask == write[commits[i].by].ask
        before == commits[commits[i].parent].tree
        after == commits[i].tree
        named == IF ask.kind = "push" THEN {ask.files[f].path : f \in DOMAIN ask.files}
                 ELSE IF ask.kind = "rename" THEN {ask.path, ask.to} ELSE {ask.path}
    IN  /\ \A p \in Paths \ named : after[p] = before[p]
        /\ ~Refused(ask, before)
        /\ ask.kind = "edit" => after[ask.path] = Edited(before[ask.path], ask.edits).text
        /\ ask.kind = "rename" => after[ask.to] = before[ask.path]

\* Whatever else is committed meanwhile, no commit that was on the branch leaves it, a commit a
\* tool reports is on it, and each tool's commit is a faithful change of the branch it tips on.
BranchSound ==
    /\ tips \subseteq HistoryOf(head)
    /\ \A c \in Writers : write[c].answer # NoCommit => write[c].answer \in HistoryOf(head)
    /\ \A i \in tips : commits[i].by \in Writers => Faithful(i)
=============================================================================
