--------------------------- MODULE VersionedFiles ---------------------------
(***************************************************************************)
(* What the configuration writers promise about the files they manage: an  *)
(* install puts a text in place that passed the writer's checks, as a      *)
(* whole; the only other text that can appear in a file is its own backup, *)
(* an earlier text of the same file; and only a copy of the one over the   *)
(* other, which is not atomic, may leave something that is neither.        *)
(***************************************************************************)
CONSTANTS
    Paths,      \* the managed files
    Contents,   \* the texts that can be generated
    Vetted,     \* those the checks accept
    Torn,       \* what a copy leaves that has not finished
    Empty,      \* the text each file starts with
    NoFile      \* there is no backup yet

VARIABLES
    live,       \* [Paths -> Contents]
    backup,     \* [Paths -> Contents \cup {NoFile}]
    past        \* every text a file has held

Init ==
    /\ live = Empty
    /\ backup \in {Empty, [p \in Paths |-> NoFile]}
    /\ past = [p \in Paths |-> {Empty[p]}]

\* A checked text replaces the file; the file may have been kept just before.
Install(p) ==
    /\ live'[p] \in Vetted
    /\ past'[p] = past[p] \cup {live'[p]}
    /\ backup'[p] \in {backup[p], live[p]}

\* The backup is being copied, or has been.
Keep(p) ==
    /\ backup'[p] \in {live[p], Torn}
    /\ live'[p] = live[p] /\ past'[p] = past[p]

\* The file is being copied back, or has been.
Restore(p) ==
    /\ backup[p] \in past[p] \cup {Torn}
    /\ live'[p] \in {backup[p], Torn}
    /\ backup'[p] = backup[p] /\ past'[p] = past[p]

Leave(p) ==
    live'[p] = live[p] /\ backup'[p] = backup[p] /\ past'[p] = past[p]

\* Every file on its own: a step of the system may be a step of several.
Next == \A p \in Paths : Leave(p) \/ Install(p) \/ Keep(p) \/ Restore(p)

Spec == Init /\ [][Next]_<<live, backup, past>>
=============================================================================
