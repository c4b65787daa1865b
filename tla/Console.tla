------------------------------- MODULE Console -------------------------------
(***************************************************************************)
(* The parts of the console that share nothing but the database they keep  *)
(* their own tables in.  Since no step of one reads what another writes,   *)
(* each is followed on its own: a behaviour picks the part it is about.    *)
(***************************************************************************)
EXTENDS AlertDesk, Blocking, Access, InterfaceChange, Migrations,
        SnapshotRestore

VARIABLE focus   \* the part the behaviour is about

consoleVars == <<deskVars, blockVars, accessVars, ifaceVars, migVars, snapVars, focus>>

Parts == {"alerts", "cases", "ids_block", "soc_block", "access", "undo", "overlap", "migrations",
          "snapshots"}

\* The parts the behaviour is not about stay in one of their initial states.
Init ==
    /\ focus \in Parts
    /\ DeskInit /\ (focus # "alerts" => cases = <<>>)
    /\ IdsBlockInit /\ SocBlockInit
    /\ AccessInit /\ (focus # "access" => \A u \in Accounts : Exists(u))
    /\ IfaceInit /\ (focus \notin {"undo", "overlap"} => row = CHOOSE r \in Rows : TRUE)
    /\ MigInit /\ (focus # "migrations" => versions = {})
    /\ SnapInit /\ (focus # "snapshots" => disk = CHOOSE d \in InitialDisks : TRUE)

DeskStep ==
    /\ \/ focus = "alerts" /\ AlertNext
       \/ focus = "cases" /\ CaseNext
    /\ UNCHANGED <<blockVars, accessVars, ifaceVars, migVars, snapVars>>

IdsBlockStep ==
    /\ focus = "ids_block" /\ IdsBlockNext
    /\ UNCHANGED <<socBlockVars, deskVars, accessVars, ifaceVars, migVars, snapVars>>

SocBlockStep ==
    /\ focus = "soc_block" /\ SocBlockNext
    /\ UNCHANGED <<idsBlockVars, deskVars, accessVars, ifaceVars, migVars, snapVars>>

AccessStep ==
    /\ focus = "access" /\ AccessNext
    /\ UNCHANGED <<deskVars, blockVars, ifaceVars, migVars, snapVars>>

IfaceStep ==
    /\ \/ focus = "undo" /\ IfaceNext /\ ~broken'
       \/ focus = "overlap" /\ IfaceNext /\ UNCHANGED reqs
    /\ UNCHANGED <<deskVars, blockVars, accessVars, migVars, snapVars>>

MigStep ==
    /\ focus = "migrations" /\ MigNext
    /\ UNCHANGED <<deskVars, blockVars, accessVars, ifaceVars, snapVars>>

SnapStep ==
    /\ focus = "snapshots" /\ SnapNext
    /\ UNCHANGED <<deskVars, blockVars, accessVars, ifaceVars, migVars>>

Next ==
    /\ \/ DeskStep \/ IdsBlockStep \/ SocBlockStep
       \/ AccessStep \/ IfaceStep \/ MigStep \/ SnapStep
    /\ UNCHANGED focus

Spec == Init /\ [][Next]_consoleVars
=============================================================================
